---- MODULE Spec2Model ----
(***************************************************************************)
(* A model of the funsor term algebra (src/funsor.py, src/funsor/contract.py)*)
(* of the sum-product engine (src/funsor/sum_product.py), and of Variable,  *)
(* var and the interning registry _VARIABLES (src/funsor.py).               *)
(*                                                                         *)
(* A funsor is a record [kind, dims, shape, data, valid]:                  *)
(*   dims   the tuple of dimension names,                                  *)
(*   shape  the tuple of sizes (a continuous domain tag is a negative      *)
(*          number, see DOMAINS),                                          *)
(*   data   the dense array, a function from 0-based index tuples to       *)
(*          integers (for a Function: the table of its evaluator),         *)
(*   valid  FALSE when the evaluator of a lazy Function was built from a   *)
(*          call that cannot be evaluated elementwise.                     *)
(* An operation returns a record [ok, err, val]: a funsor, or the          *)
(* exception it raised.                                                    *)
(***************************************************************************)
EXTENDS Integers, Sequences, FiniteSets, TLC

VARIABLES f, call, res, nops,   \* the term algebra: current funsor, last call, its result
          sp,                    \* the frame of a sum_product call
          sq,                    \* the frame of a sequential_sum_product call
          vr                     \* the objects, the registry _VARIABLES and the threads calling var

vars == <<f, call, res, nops, sp, sq, vr>>

\* ------------------------------------------------------------------ bounds
MaxOps == 1
MaxSeed == 0

\* ------------------------------------------------------- generic helpers
Range(s) == {s[k] : k \in 1..Len(s)}
Min2(x, y) == IF x <= y THEN x ELSE y
Max2(x, y) == IF x >= y THEN x ELSE y
IndexOf(s, x) == CHOOSE k \in 1..Len(s) : s[k] = x /\ \A j \in 1..(k-1) : s[j] # x
Remove(s, k) == SubSeq(s, 1, k-1) \o SubSeq(s, k+1, Len(s))
Splice(s, k, mid) == SubSeq(s, 1, k-1) \o mid \o SubSeq(s, k+1, Len(s))
Insert(s, k, v) == SubSeq(s, 1, k-1) \o <<v>> \o SubSeq(s, k, Len(s))
Reverse(s) == [k \in 1..Len(s) |-> s[Len(s)+1-k]]
Zip(xs, ys) == [k \in 1..Min2(Len(xs), Len(ys)) |-> <<xs[k], ys[k]>>]
Filter(s, keep) == SelectSeq(s, LAMBDA x : x \in keep)
Without(s, drop) == SelectSeq(s, LAMBDA x : x \notin drop)

\* All 0-based index tuples of an array of the given shape.
RECURSIVE Idx(_)
Idx(shape) ==
  IF shape = <<>> THEN {<<>>}
  ELSE {<<i>> \o s : i \in 0..(Head(shape)-1), s \in Idx(Tail(shape))}

RECURSIVE Numel(_)
Numel(shape) == IF shape = <<>> THEN 1 ELSE Head(shape) * Numel(Tail(shape))

\* An ordered dict is a sequence of <<key, value>> pairs with distinct keys.
DictKeys(d) == [k \in 1..Len(d) |-> d[k][1]]
DictSet(d, key, v) ==
  IF \E k \in 1..Len(d) : d[k][1] = key
  THEN [k \in 1..Len(d) |-> IF d[k][1] = key THEN <<key, v>> ELSE d[k]]
  ELSE Append(d, <<key, v>>)
RECURSIVE DictUpdate(_, _)
DictUpdate(d, pairs) ==
  IF pairs = <<>> THEN d
  ELSE DictUpdate(DictSet(d, Head(pairs)[1], Head(pairs)[2]), Tail(pairs))
DictGet(d, key) == d[CHOOSE k \in 1..Len(d) : d[k][1] = key][2]

\* --------------------------------------------------------------- domains
\* DOMAINS = ("real", "positive", "unit_interval"), encoded as -1, -2, -3.
DOMAINS == {-1, -2, -3}

\* ---------------------------------------------------------------- results
NoF == [kind |-> "None", dims |-> <<>>, shape |-> <<>>,
        data |-> (<<>> :> 0), valid |-> FALSE]
Ok(v) == [ok |-> TRUE, err |-> "", val |-> v]
Fail(e) == [ok |-> FALSE, err |-> e, val |-> NoF]

\* The elementwise operators of the model.
ApplyOp(op, x, y) ==
  CASE op = "add" -> x + y
    [] op = "mul" -> x * y
    [] op = "sub" -> x - y
    [] op = "rsub" -> y - x
    [] op = "min" -> Min2(x, y)
    [] op = "max" -> Max2(x, y)
ApplyUnary(op, x) ==
  CASE op = "neg" -> 0 - x
    [] op = "abs" -> IF x < 0 THEN 0 - x ELSE x

\* ------------------------------------------------------ Funsor.__init__
\* The assertions of Funsor.__init__: TRUE when construction succeeds.
FunsorInitAlways(dims, shape) == TRUE
FunsorInit(dims, shape) ==
  /\ Cardinality(Range(dims)) = Len(dims)
  /\ \A k \in 1..Len(shape) : shape[k] >= 0 \/ shape[k] \in DOMAINS
  /\ Len(dims) = Len(shape)

\* Tensor(dims, data): the shape is the array's own shape.
TensorNew(dims, shape, data) ==
  IF FunsorInit(dims, shape)
  THEN Ok([kind |-> "Tensor", dims |-> dims, shape |-> shape,
           data |-> data, valid |-> TRUE])
  ELSE Fail("AssertionError")

\* Function(dims, shape, fn): data is the table of fn, valid whether fn can
\* be evaluated elementwise.
FunctionNew(dims, shape, data, valid) ==
  IF FunsorInit(dims, shape)
  THEN Ok([kind |-> "Function", dims |-> dims, shape |-> shape,
           data |-> data, valid |-> valid])
  ELSE Fail("AssertionError")

\* The schema of a funsor: the ordered dict dims -> shape.
Schema(x) == Zip(x.dims, x.shape)

\* ------------------------------------------------- values of a call
\* A value is a record [t, n, s, v, sl]: a number, a string, a funsor, the
\* Ellipsis, a slice, a callable operator, or a raw backend array.
Num(n) == [t |-> "num", n |-> n, s |-> "", v |-> NoF, sl |-> <<>>]
Str(s) == [t |-> "str", n |-> 0, s |-> s, v |-> NoF, sl |-> <<>>]
Ten(v) == [t |-> "tensor", n |-> 0, s |-> "", v |-> v, sl |-> <<>>]
EllipsisV == [t |-> "ellipsis", n |-> 0, s |-> "", v |-> NoF, sl |-> <<>>]
OpV(op) == [t |-> "op", n |-> 0, s |-> op, v |-> NoF, sl |-> <<>>]
RawV == [t |-> "raw", n |-> 0, s |-> "", v |-> NoF, sl |-> <<>>]
NoV == [t |-> "none", n |-> 0, s |-> "", v |-> NoF, sl |-> <<>>]

\* torch.arange(start, stop, step) for step >= 1, as a tuple.
Arange(start, stop, step) ==
  [k \in 1..(IF stop > start THEN (stop - start + step - 1) \div step ELSE 0)
     |-> start + (k-1) * step]
\* slice(start, stop, step); None is NoneV. slice(None) is Slc(NoneV, NoneV, NoneV).
NoneV == -1
Slc(start, stop, step) ==
  [t |-> "slice", n |-> 0, s |-> "", v |-> NoF, sl |-> <<start, stop, step>>]
IsFunsor(value) == value.t = "tensor"

\* ---------------------------------------------------- Tensor._substitute
\* Variant of the collision test that never reports a collision.
GatherCollisionNever(selfdims, dim, vdims) == FALSE
\* for d in value.dims: if d != dim and d in self.dims
GatherCollision(selfdims, dim, vdims) ==
  \E d \in Range(vdims) : d # dim /\ d \in Range(selfdims)

\* value is a Tensor: gather along axis pos, splicing in value's dims.
TensorGather(self, pos, dim, v) ==
  LET dims == Splice(self.dims, pos, v.dims)
      k == Len(v.dims)
  IN IF GatherCollision(self.dims, dim, v.dims)
     THEN Fail("NotImplementedError: TODO")
     ELSE IF \E i \in DOMAIN v.data : v.data[i] \notin 0..(self.shape[pos]-1)
     THEN Fail("IndexError")
     ELSE LET shape == Splice(self.shape, pos, v.shape)
              data == [i \in Idx(shape) |->
                         self.data[SubSeq(i, 1, pos-1)
                                   \o <<v.data[SubSeq(i, pos, pos+k-1)]>>
                                   \o SubSeq(i, pos+k, Len(i))]]
          IN TensorNew(dims, shape, data)

TensorSubstitute(self, dim, value) ==
  LET pos == IndexOf(self.dims, dim) IN
  IF dim \notin Range(self.dims) THEN Fail("ValueError")
  ELSE IF value.t = "num" THEN
    IF value.n \notin 0..(self.shape[pos]-1) THEN Fail("IndexError")
    ELSE LET dims == Remove(self.dims, pos)
             shape == Remove(self.shape, pos)
             data == [i \in Idx(shape) |-> self.data[Insert(i, pos, value.n)]]
         IN TensorNew(dims, shape, data)
  ELSE IF value.t = "slice" THEN
    IF value.sl = <<NoneV, NoneV, NoneV>> THEN Ok(self)
    ELSE LET start == IF value.sl[1] = NoneV THEN 0 ELSE value.sl[1]
             stop == IF value.sl[2] = NoneV THEN self.shape[pos] ELSE value.sl[2]
             step == IF value.sl[3] = NoneV THEN 1 ELSE value.sl[3]
             ar == Arange(start, stop, step)
             v == TensorNew(<<dim>>, <<Len(ar)>>, [i \in Idx(<<Len(ar)>>) |-> ar[i[1]+1]])
         IN IF v.ok THEN TensorGather(self, pos, dim, v.val) ELSE v
  ELSE IF value.t = "tensor" /\ value.v.kind = "Tensor" THEN
    TensorGather(self, pos, dim, value.v)
  ELSE IF value.t = "str" THEN
    IF self.dims[pos] = value.s THEN Ok(self)
    ELSE LET dims == [self.dims EXCEPT ![pos] = dim]
         IN TensorNew(dims, self.shape, self.data)
  ELSE Fail("NotImplementedError: TODO handle")

\* ------------------------------------------------------- Tensor.__call__
FirstEllipsis(args) ==
  IF \E k \in 1..Len(args) : args[k].t = "ellipsis"
  THEN CHOOSE k \in 1..Len(args) :
         args[k].t = "ellipsis" /\ \A j \in 1..(k-1) : args[j].t # "ellipsis"
  ELSE 0

\* The dict of substitutions Tensor.__call__ builds, in dict order.
TensorCallKwargs(self, args, kwargs) ==
  LET kw0 == SelectSeq(kwargs, LAMBDA p : p[1] \in Range(self.dims))
      e == FirstEllipsis(args)
      kw1 == IF e > 0
             THEN DictUpdate(kw0, Zip(Reverse(self.dims),
                                      Reverse(SubSeq(args, e+1, Len(args)))))
             ELSE kw0
      args1 == IF e > 0 THEN SubSeq(args, 1, e-1) ELSE args
  IN DictUpdate(kw1, Zip(self.dims, args1))

RECURSIVE SubstituteAll(_, _)
SubstituteAll(r, kw) ==
  IF ~r.ok \/ kw = <<>> THEN r
  ELSE SubstituteAll(TensorSubstitute(r.val, Head(kw)[1], Head(kw)[2]), Tail(kw))

TensorCall(self, args, kwargs) ==
  SubstituteAll(Ok(self), TensorCallKwargs(self, args, kwargs))

\* ----------------------------------------------------- Function.__call__
\* functools.partial(self.fn, *args, **kwargs): positional values bind the
\* leading parameters of the evaluator, named values bind by name.
FunctionCall(self, args, kwargs) ==
  LET kw == SelectSeq(kwargs, LAMBDA p : p[1] \in Range(self.dims))
      keys == Range(DictKeys(kw))
      rest == SubSeq(self.dims, Len(args)+1, Len(self.dims))
      dims == Without(rest, keys)
      shape == [k \in 1..Len(dims) |-> DictGet(Schema(self), dims[k])]
      bound(p) == IF p <= Len(args) THEN args[p] ELSE DictGet(kw, self.dims[p])
      isbound(p) == p <= Len(args) \/ self.dims[p] \in keys
      valid == /\ self.valid
               /\ Len(args) <= Len(self.dims)
               /\ \A p \in 1..Len(self.dims) : p <= Len(args) => self.dims[p] \notin keys
               /\ \A p \in 1..Len(self.dims) : isbound(p) =>
                     bound(p).t = "num" /\ bound(p).n \in 0..(self.shape[p]-1)
      full(i) == [p \in 1..Len(self.dims) |->
                    IF isbound(p) THEN bound(p).n
                    ELSE i[IndexOf(dims, self.dims[p])]]
      data == [i \in Idx(shape) |-> IF valid THEN self.data[full(i)] ELSE 0]
  IN IF args = <<>> /\ kw = <<>> THEN Ok(self)
     ELSE FunctionNew(dims, shape, data, valid)

\* f(*args, **kwargs) for a Tensor or a Function.
Call(self, args, kwargs) ==
  IF self.kind = "Tensor" THEN TensorCall(self, args, kwargs)
  ELSE FunctionCall(self, args, kwargs)

\* ------------------------------------------------------ backend arrays
\* A backend array is [ok, shape, at]; ok = FALSE is a backend error.
Raw(shape, at) == [ok |-> TRUE, shape |-> shape, at |-> at]
RawFail == [ok |-> FALSE, shape |-> <<>>, at |-> (<<>> :> 0)]

RECURSIVE Flat(_, _)
Flat(i, shape) ==
  IF i = <<>> THEN 0
  ELSE Head(i) * Numel(Tail(shape)) + Flat(Tail(i), Tail(shape))
RECURSIVE Unravel(_, _)
Unravel(n, shape) ==
  IF shape = <<>> THEN <<>>
  ELSE <<n \div Numel(Tail(shape))>> \o Unravel(n % Numel(Tail(shape)), Tail(shape))

\* x.permute(perm): axis k of the result is axis perm[k] of x.
Permute(x, perm) ==
  LET shape == [k \in 1..Len(perm) |-> x.shape[perm[k]]]
  IN Raw(shape, [i \in Idx(shape) |->
                   x.at[[p \in 1..Len(x.shape) |-> i[IndexOf(perm, p)]]]])

\* x.reshape(shape): the same elements in row-major order.
Reshape(x, shape) ==
  IF Numel(shape) # Numel(x.shape) THEN RawFail
  ELSE Raw(shape, [i \in Idx(shape) |-> x.at[Unravel(Flat(i, shape), x.shape)]])

\* op(x, y) on two arrays of the same rank, broadcasting size-1 axes.
BroadcastOp(op, x, y) ==
  LET n == Len(x.shape)
      shape == [k \in 1..n |-> IF x.shape[k] = 1 THEN y.shape[k] ELSE x.shape[k]]
      clip(i, sh) == [k \in 1..n |-> IF sh[k] = 1 THEN 0 ELSE i[k]]
  IN IF ~x.ok \/ ~y.ok \/ Len(y.shape) # n THEN RawFail
     ELSE IF \E k \in 1..n : x.shape[k] # y.shape[k] /\ x.shape[k] # 1 /\ y.shape[k] # 1
     THEN RawFail
     ELSE Raw(shape, [i \in Idx(shape) |->
                        ApplyOp(op, x.at[clip(i, x.shape)], y.at[clip(i, y.shape)])])

\* The fold of op over axis pos (1-based) of x, as torch_op(data, pos).
RECURSIVE FoldAxis(_, _, _, _, _)
FoldAxis(op, x, i, pos, k) ==
  IF k = 0 THEN x.at[Insert(i, pos, 0)]
  ELSE ApplyOp(op, FoldAxis(op, x, i, pos, k-1), x.at[Insert(i, pos, k)])
ReduceAxis(op, x, pos) ==
  LET shape == Remove(x.shape, pos)
      unit == IF op = "mul" THEN 1 ELSE 0
  IN IF x.shape[pos] = 0 /\ op \in {"min", "max"} THEN RawFail
     ELSE Raw(shape, [i \in Idx(shape) |->
                        IF x.shape[pos] = 0 THEN unit
                        ELSE FoldAxis(op, x, i, pos, x.shape[pos]-1)])

\* -------------------------------------------------------- _align_tensors
\* args is a tuple of <<dims, array>> pairs.
AlignSizes(args) ==
  LET RECURSIVE go(_, _)
      go(sizes, k) ==
        IF k > Len(args) THEN sizes
        ELSE go(DictUpdate(sizes, Zip(args[k][1], args[k][2].shape)), k+1)
  IN go(<<>>, 1)
\* Variant of the alignment of one array that reshapes without permuting.
AlignOneNoPermute(x_dims, x, sizes) ==
  LET dims == DictKeys(sizes)
      shape == [k \in 1..Len(dims) |->
                  IF dims[k] \in Range(x_dims) THEN DictGet(sizes, dims[k]) ELSE 1]
  IN IF x_dims # dims THEN Reshape(x, shape) ELSE x
AlignOne(x_dims, x, sizes) ==
  LET dims == DictKeys(sizes)
      present == Filter(dims, Range(x_dims))
      perm == [k \in 1..Len(present) |-> IndexOf(x_dims, present[k])]
      shape == [k \in 1..Len(dims) |->
                  IF dims[k] \in Range(x_dims) THEN DictGet(sizes, dims[k]) ELSE 1]
  IN IF x_dims # dims THEN Reshape(Permute(x, perm), shape) ELSE x
AlignTensors(args) ==
  LET sizes == AlignSizes(args)
  IN [dims |-> DictKeys(sizes),
      tensors |-> [k \in 1..Len(args) |-> AlignOne(args[k][1], args[k][2], sizes)]]

\* -------------------------------------------------------- pointwise_unary
\* A unary callable g is OpV("neg"), OpV("abs"), or the closure
\* lambda a: op(a, other) that Funsor.pointwise_binary builds, written
\* [t |-> "partial", op |-> op, other |-> other].
Partial(op, other) == [t |-> "partial", op |-> op, other |-> other]

\* Tensor.pointwise_unary: Tensor(self.dims, g(self.data)).
TensorPointwiseUnary(self, g) ==
  IF g.t = "op" THEN
    TensorNew(self.dims, self.shape, [i \in DOMAIN self.data |-> ApplyUnary(g.s, self.data[i])])
  ELSE IF g.op.t = "op" THEN
    IF g.other.t = "num"
    THEN TensorNew(self.dims, self.shape,
                   [i \in DOMAIN self.data |-> ApplyOp(g.op.s, self.data[i], g.other.n)])
    ELSE Fail("TypeError")
  ELSE \* g.op is a funsor b: b(self.data, other) is a funsor call
    LET r == Call(g.op.v, <<RawV, g.other>>, <<>>)
    IN IF r.ok THEN Fail("AssertionError") ELSE r

\* Funsor.pointwise_unary: Function(self.dims, self.shape, fn), fn lazy.
FunsorPointwiseUnary(self, g) ==
  LET valid == self.valid /\ (g.t = "op" \/ (g.op.t = "op" /\ g.other.t = "num"))
      data == [i \in DOMAIN self.data |->
                 IF ~valid THEN 0
                 ELSE IF g.t = "op" THEN ApplyUnary(g.s, self.data[i])
                 ELSE ApplyOp(g.op.s, self.data[i], g.other.n)]
  IN FunctionNew(self.dims, self.shape, data, valid)

PointwiseUnary(self, g) ==
  IF self.kind = "Tensor" THEN TensorPointwiseUnary(self, g)
  ELSE FunsorPointwiseUnary(self, g)

\* ------------------------------------------------------- pointwise_binary
\* The value of x at index i of an array whose axes are named dims.
NamedAt(x, dims, i) ==
  x.data[[p \in 1..Len(x.dims) |-> i[IndexOf(dims, x.dims[p])]]]

\* Funsor.pointwise_binary(self, other, op); other and op are values.
FunsorPointwiseBinary(self, other, op) ==
  IF ~IsFunsor(other) THEN PointwiseUnary(self, Partial(op, other))
  ELSE IF op.t # "op" THEN Fail("TypeError")
  ELSE IF self.dims = other.v.dims THEN
    LET valid == self.valid /\ other.v.valid /\ self.shape = other.v.shape
    IN FunctionNew(self.dims, self.shape,
                   [i \in Idx(self.shape) |->
                      IF valid THEN ApplyOp(op.s, self.data[i], other.v.data[i]) ELSE 0],
                   valid)
  ELSE
    LET schema == DictUpdate(Schema(self), Schema(other.v))
        dims == DictKeys(schema)
        shape == [k \in 1..Len(schema) |-> schema[k][2]]
        valid == /\ self.valid /\ other.v.valid
                 /\ \A k \in 1..Len(self.dims) : DictGet(schema, self.dims[k]) = self.shape[k]
    IN FunctionNew(dims, shape,
                   [i \in Idx(shape) |->
                      IF valid
                      THEN ApplyOp(op.s, NamedAt(self, dims, i), NamedAt(other.v, dims, i))
                      ELSE 0],
                   valid)

Arr(x) == Raw(x.shape, x.data)

\* Tensor.pointwise_binary(self, other, op).
TensorPointwiseBinary(self, other, op) ==
  IF ~(IsFunsor(other) /\ other.v.kind = "Tensor")
  THEN FunsorPointwiseBinary(self, other, op)
  ELSE IF op.t # "op" THEN Fail("TypeError")
  ELSE IF self.dims = other.v.dims THEN
    LET r == BroadcastOp(op.s, Arr(self), Arr(other.v))
    IN IF r.ok THEN TensorNew(self.dims, r.shape, r.at) ELSE Fail("RuntimeError")
  ELSE
    LET al == AlignTensors(<<<<self.dims, Arr(self)>>, <<other.v.dims, Arr(other.v)>>>>)
        r == BroadcastOp(op.s, al.tensors[1], al.tensors[2])
    IN IF r.ok THEN TensorNew(al.dims, r.shape, r.at) ELSE Fail("RuntimeError")

PointwiseBinary(self, other, op) ==
  IF self.kind = "Tensor" THEN TensorPointwiseBinary(self, other, op)
  ELSE FunsorPointwiseBinary(self, other, op)

\* ----------------------------------------------------------------- reduce
\* The ops of _REDUCE_OP_TO_TORCH that the model has.
REDUCE_OP_TO_TORCH == {"add", "mul", "min", "max"}

\* dims of a reduce call: [all |-> TRUE] is dims=None, else the set given.
EffectiveDims(self, rd) ==
  IF rd.all THEN Range(self.dims) ELSE rd.set \cap Range(self.dims)

\* Variant of the fold over all elements that stops at the first element.
FoldAllFirst(op, x, k) == x.at[Unravel(0, x.shape)]
\* torch_op(self.data): the fold over all elements.
RECURSIVE FoldAll(_, _, _)
FoldAll(op, x, k) ==
  IF k = 0 THEN x.at[Unravel(0, x.shape)]
  ELSE ApplyOp(op, FoldAll(op, x, k-1), x.at[Unravel(k, x.shape)])
ReduceAll(op, x) ==
  IF Numel(x.shape) = 0
  THEN (IF op \in {"min", "max"} THEN RawFail
        ELSE Raw(<<>>, (<<>> :> (IF op = "mul" THEN 1 ELSE 0))))
  ELSE Raw(<<>>, (<<>> :> FoldAll(op, x, Numel(x.shape)-1)))

\* The axes (1-based) to reduce, highest first.
RECURSIVE AxesDescending(_, _)
AxesDescending(dims, set) ==
  IF dims = <<>> THEN <<>>
  ELSE (IF dims[Len(dims)] \in set THEN <<Len(dims)>> ELSE <<>>)
       \o AxesDescending(SubSeq(dims, 1, Len(dims)-1), set)
RECURSIVE ReduceAxes(_, _, _)
ReduceAxes(op, x, axes) ==
  IF axes = <<>> \/ ~x.ok THEN x
  ELSE ReduceAxes(op, ReduceAxis(op, x, Head(axes)), Tail(axes))

\* Funsor.reduce: the generic fold, one dim at a time in the iteration
\* order of the frozenset (order).  op(x, y) on funsors is
\* x.pointwise_binary(y, op).
RECURSIVE FoldDim(_, _, _, _)
FoldDim(x, op, dim, k) ==
  IF k = 0 THEN Call(x, <<>>, <<<<dim, Num(0)>>>>)
  ELSE LET acc == FoldDim(x, op, dim, k-1)
           nxt == Call(x, <<>>, <<<<dim, Num(k)>>>>)
       IN IF ~acc.ok THEN acc
          ELSE IF ~nxt.ok THEN nxt
          ELSE PointwiseBinary(acc.val, Ten(nxt.val), OpV(op))
RECURSIVE FunsorReduceOrder(_, _, _)
FunsorReduceOrder(r, op, order) ==
  IF ~r.ok \/ order = <<>> THEN r
  ELSE LET dim == Head(order)
           size == DictGet(Schema(r.val), dim)
       IN IF size < 0 THEN Fail("NotImplementedError: cannot reduce dim")
          ELSE IF size = 0 THEN Fail("TypeError")
          ELSE FunsorReduceOrder(FoldDim(r.val, op, dim, size-1), op, Tail(order))
FunsorReduce(self, op, rd, order) == FunsorReduceOrder(Ok(self), op, order)

\* Tensor.reduce.
TensorReduce(self, op, rd, order) ==
  IF op \in REDUCE_OP_TO_TORCH THEN
    IF rd.all THEN
      LET r == ReduceAll(op, Arr(self))
      IN IF r.ok THEN TensorNew(<<>>, r.shape, r.at) ELSE Fail("RuntimeError")
    ELSE LET dims == EffectiveDims(self, rd) IN
      IF dims = {} THEN Ok(self)
      ELSE LET r == ReduceAxes(op, Arr(self), AxesDescending(self.dims, dims))
           IN IF r.ok THEN TensorNew(Without(self.dims, dims), r.shape, r.at)
              ELSE Fail("RuntimeError")
  ELSE FunsorReduce(self, op, rd, order)

Reduce(self, op, rd, order) ==
  IF self.kind = "Tensor" THEN TensorReduce(self, op, rd, order)
  ELSE FunsorReduce(self, op, rd, order)

\* -------------------------------------------------------- Tensor.argreduce
\* The pair (args, remaining) an argreduce returns: args is a dict from
\* dims to funsors, remaining the reduced funsor.
ArgResult(args, remaining) ==
  [ok |-> TRUE, err |-> "", val |-> remaining, args |-> args]
\* Tensor.argreduce(self, op, dims). For min and max over one dim the line
\* value, remaining = getattr(self.data, op.__name__) unpacks a bound
\* method, which raises TypeError.
TensorArgreduce(self, op, rd) ==
  LET dims == rd.set \cap Range(self.dims) IN
  IF dims = {} THEN ArgResult(<<>>, self)
  ELSE IF op \in {"min", "max"} THEN
    IF Cardinality(dims) = 1 THEN Fail("TypeError")
    ELSE Fail("NotImplementedError: TODO implement multiway argmin, argmax")
  ELSE Fail("NotImplementedError: TODO handle")

\* The iteration orders of a frozenset.
Orders(S) == {o \in [1..Cardinality(S) -> S] : Range(o) = S}

\* --------------------------------------------------------- Funsor.contract
\* return self.pointwise_binary(prod_op, other).reduce(sum_op, dims)
ContractProduct(self, prod_op, other) == PointwiseBinary(self, OpV(prod_op), Ten(other))
Contract(self, sum_op, prod_op, other, rd, order) ==
  LET pw == ContractProduct(self, prod_op, other)
  IN IF pw.ok THEN Reduce(pw.val, sum_op, rd, order) ELSE pw

\* ------------------------------------------- Contract.__init__ (the node)
\* The node keeps its operands unevaluated: the model keeps its schema.
ContractNew(sum_op, prod_op, lhs, rhs, reduce_dims) ==
  LET schema == DictUpdate(Schema(lhs), Schema(rhs))
      kept == SelectSeq(schema, LAMBDA p : p[1] \notin reduce_dims)
      dims == DictKeys(kept)
      shape == [k \in 1..Len(kept) |-> kept[k][2]]
  IN IF ~(reduce_dims \subseteq Range(DictKeys(schema))) THEN Fail("AssertionError")
     ELSE IF ~FunsorInit(dims, shape) THEN Fail("AssertionError")
     ELSE Ok([kind |-> "Contract", dims |-> dims, shape |-> shape,
              data |-> [i \in Idx(shape) |-> 0], valid |-> FALSE])

\* ------------------------------------------------------------- the inputs
Names == {"a", "b", "c"}
\* Every funsor of a run agrees on the size of a named dimension.
Size(d) == CASE d = "a" -> 2 [] d = "b" -> 3 [] OTHER -> 2
ShapeOf(dims) == [k \in 1..Len(dims) |-> Size(dims[k])]
InputDims == {<<>>, <<"a">>, <<"b">>, <<"a", "b">>, <<"b", "a">>}
\* The array whose element at row-major offset k is seed + k.
Table(shape, seed) == [i \in Idx(shape) |-> seed + Flat(i, shape)]
Inputs(kind) ==
  {[kind |-> kind, dims |-> d, shape |-> ShapeOf(d),
    data |-> Table(ShapeOf(d), s), valid |-> TRUE] : d \in InputDims, s \in 0..MaxSeed}
\* Index tensors for a gather: entries in 0..2.
IndexDims == {<<>>, <<"c">>, <<"a">>, <<"c", "b">>}
\* The second operands of binary operations.
Others ==
  {x \in Inputs("Tensor") \cup Inputs("Function") :
     x.dims \in {<<>>, <<"b">>, <<"b", "a">>}}
IndexTensors ==
  {[kind |-> "Tensor", dims |-> d, shape |-> ShapeOf(d),
    data |-> [i \in Idx(ShapeOf(d)) |-> (s + Flat(i, ShapeOf(d))) % 3],
    valid |-> TRUE] : d \in IndexDims, s \in 0..MaxSeed}
PosArgs ==
  LET V == {Num(1), EllipsisV}
  IN {<<>>} \cup {<<x>> : x \in V} \cup {<<x, y>> : x \in V, y \in V}
NamedArgs == {<<>>, <<<<"a", Num(0)>>>>, <<<<"b", Num(2)>>>>, <<<<"c", Num(0)>>>>}
BinaryOps == {"mul", "sub"}
SemiringPairs == {<<"add", "mul">>, <<"max", "add">>}
ReduceDims ==
  {[all |-> TRUE, set |-> {}], [all |-> FALSE, set |-> {"a"}],
   [all |-> FALSE, set |-> {"b", "c"}]}

\* ---------------------------------------------------------------- state
\* f is the current funsor, call the last operation with its receiver and
\* arguments, res what it returned or raised, nops the operations so far.
NoCall ==
  [op |-> "init", self |-> NoF, args |-> <<>>, kwargs |-> <<>>, other |-> NoV,
   sum_op |-> "", prod_op |-> "", rd |-> [all |-> FALSE, set |-> {}], order |-> <<>>]

\* No sum_product / sequential_sum_product call is in progress.
NoFrame == [pc |-> "idle"]

Init ==
  /\ f \in Inputs("Tensor") \cup Inputs("Function")
  /\ call = NoCall
  /\ res = Ok(f)
  /\ nops = 0
  /\ sp = NoFrame
  /\ sq = NoFrame
  /\ vr = NoFrame

Done(c, r) ==
  /\ call' = c
  /\ res' = r
  /\ f' = IF r.ok THEN r.val ELSE f
  /\ nops' = nops + 1
  /\ UNCHANGED <<sp, sq, vr>>

CanOp == nops < MaxOps /\ f.kind \in {"Tensor", "Function"}

\* Tensor(dims, data) / Function(dims, shape, fn) with any dims and shape.
Construct ==
  \E kind \in {"Tensor", "Function"}, dims \in InputDims \cup {<<"a", "a">>},
     shape \in {ShapeOf(d) : d \in InputDims}, seed \in 0..MaxSeed :
    LET r == IF kind = "Tensor" THEN TensorNew(dims, shape, Table(shape, seed))
             ELSE FunctionNew(dims, shape, Table(shape, seed), TRUE)
    IN /\ nops < MaxOps
       /\ r.ok /\ Len(dims) = Len(shape) => shape = ShapeOf(dims)
       /\ Done([NoCall EXCEPT !.op = "construct", !.args = <<dims, shape>>], r)

\* f(*args, **kwargs) with numbers and the Ellipsis.
CallNumbers ==
  /\ CanOp
  /\ \E args \in PosArgs, kwargs \in NamedArgs :
       Done([NoCall EXCEPT !.op = "call", !.self = f, !.args = args, !.kwargs = kwargs],
            Call(f, args, kwargs))

\* f(**{d: new}) with a rename-string.
CallRename ==
  /\ CanOp
  /\ \E d \in {"a", "c"}, new \in Names :
       Done([NoCall EXCEPT !.op = "rename", !.self = f, !.kwargs = <<<<d, Str(new)>>>>],
            Call(f, <<>>, <<<<d, Str(new)>>>>))

\* f(**{d: v}) with a Tensor-valued index v.
CallGather ==
  /\ CanOp
  /\ \E d \in {"a", "b"}, v \in IndexTensors :
       Done([NoCall EXCEPT !.op = "gather", !.self = f, !.kwargs = <<<<d, Ten(v)>>>>],
            Call(f, <<>>, <<<<d, Ten(v)>>>>))

\* f(**{d: slice(start, stop, step)}).
CallSlice ==
  /\ CanOp
  /\ \E d \in {"a", "b"}, sl \in {<<NoneV, NoneV, NoneV>>, <<1, NoneV, NoneV>>, <<0, 3, 2>>} :
       Done([NoCall EXCEPT !.op = "slice", !.self = f,
                           !.kwargs = <<<<d, Slc(sl[1], sl[2], sl[3])>>>>],
            Call(f, <<>>, <<<<d, Slc(sl[1], sl[2], sl[3])>>>>))

Unary ==
  /\ CanOp
  /\ \E op \in {"neg", "abs"} :
       Done([NoCall EXCEPT !.op = "pointwise_unary", !.self = f, !.prod_op = op],
            PointwiseUnary(f, OpV(op)))

Binary ==
  /\ CanOp
  /\ \E op \in BinaryOps, g \in Others :
       Done([NoCall EXCEPT !.op = "pointwise_binary", !.self = f, !.other = Ten(g),
                           !.prod_op = op],
            PointwiseBinary(f, Ten(g), OpV(op)))

ReduceOp ==
  /\ CanOp
  /\ \E op \in REDUCE_OP_TO_TORCH, rd \in ReduceDims :
       \E order \in Orders(EffectiveDims(f, rd)) :
         Done([NoCall EXCEPT !.op = "reduce", !.self = f, !.sum_op = op, !.rd = rd,
                             !.order = order],
              Reduce(f, op, rd, order))

\* The dims of an argreduce.
ArgreduceDims == {{"a"}, {"b"}, {"c"}, {"a", "b"}}
ArgreduceOp ==
  /\ CanOp /\ f.kind = "Tensor"
  /\ \E op \in {"min", "max", "add"}, ds \in ArgreduceDims :
       Done([NoCall EXCEPT !.op = "argreduce", !.self = f, !.sum_op = op,
                           !.rd = [all |-> FALSE, set |-> ds]],
            TensorArgreduce(f, op, [all |-> FALSE, set |-> ds]))

ContractOp ==
  /\ CanOp
  /\ \E sr \in SemiringPairs, g \in Others, rd \in ReduceDims :
       LET pw == ContractProduct(f, sr[2], g)
       IN \E order \in Orders(IF pw.ok THEN EffectiveDims(pw.val, rd) ELSE {}) :
            Done([NoCall EXCEPT !.op = "contract", !.self = f, !.other = Ten(g),
                                !.sum_op = sr[1], !.prod_op = sr[2], !.rd = rd,
                                !.order = order],
                 Contract(f, sr[1], sr[2], g, rd, order))

ContractNode ==
  /\ CanOp
  /\ \E sr \in SemiringPairs, g \in Others, S \in {{}, {"a"}, {"b", "c"}} :
       Done([NoCall EXCEPT !.op = "Contract", !.self = f, !.other = Ten(g),
                           !.sum_op = sr[1], !.prod_op = sr[2],
                           !.rd = [all |-> FALSE, set |-> S]],
            ContractNew(sr[1], sr[2], f, g, S))

Next ==
  \/ Construct
  \/ CallNumbers
  \/ CallRename
  \/ CallGather
  \/ CallSlice
  \/ Unary
  \/ Binary
  \/ ReduceOp
  \/ ArgreduceOp
  \/ ContractOp
  \/ ContractNode

Spec == Init /\ [][Next]_vars

\* Every funsor held by the state is well formed: its array has its shape.
TypeOK ==
  /\ DOMAIN f.data = Idx(f.shape)
  /\ res.ok => res.val = f

\* =================================================================== claims
WellFormed(x) ==
  /\ Len(x.dims) = Len(x.shape)
  /\ \A i, j \in 1..Len(x.dims) : x.dims[i] = x.dims[j] => i = j

SameNamedValue(x, y) ==
  /\ Range(x.dims) = Range(y.dims)
  /\ \A k \in 1..Len(x.dims) : x.shape[k] = y.shape[IndexOf(y.dims, x.dims[k])]
  /\ x.valid = y.valid
  /\ x.valid => \A i \in Idx(x.shape) : x.data[i] = NamedAt(y, x.dims, i)

\* a.pointwise_binary(b, prod_op).reduce(sum_op, dims)
Fused(self, sum_op, prod_op, other, rd) ==
  LET pw == PointwiseBinary(self, Ten(other), OpV(prod_op))
  IN IF pw.ok
     THEN Reduce(pw.val, sum_op, rd, CHOOSE o \in Orders(EffectiveDims(pw.val, rd)) : TRUE)
     ELSE pw

\* C2: a.contract(sum_op, prod_op, b, dims) returns the same named-dimension
\* value as a.pointwise_binary(b, prod_op).reduce(sum_op, dims).
C2_ContractFusion ==
  call.op = "contract" =>
    LET ref == Fused(call.self, call.sum_op, call.prod_op, call.other.v, call.rd)
    IN ref.ok => res.ok /\ SameNamedValue(res.val, ref.val)

\* The dims a call binds: the leftmost ones by the positional values before
\* an Ellipsis, the trailing ones by the values after it, and the named ones.
Leading(args) == IF FirstEllipsis(args) > 0 THEN FirstEllipsis(args) - 1 ELSE Len(args)
Trailing(args) == IF FirstEllipsis(args) > 0 THEN Len(args) - FirstEllipsis(args) ELSE 0
BoundDims(self, args, kwargs) ==
  LET n == Len(self.dims)
  IN {self.dims[k] : k \in 1..Min2(Leading(args), n)}
       \cup {self.dims[n+1-k] : k \in 1..Min2(Trailing(args), n)}
       \cup (Range(DictKeys(kwargs)) \cap Range(self.dims))
\* The call binds no dim twice, has at most one Ellipsis and no more
\* positional values than dims.
PlainCall(self, args, kwargs) ==
  /\ Cardinality({k \in 1..Len(args) : args[k].t = "ellipsis"}) <= 1
  /\ Leading(args) + Trailing(args) + Len(SelectSeq(kwargs, LAMBDA p : p[1] \in Range(self.dims)))
       = Cardinality(BoundDims(self, args, kwargs))

\* C8: f(*positional, **named) with numbers binds positional values to the
\* leftmost dims, named values by name and the values after an Ellipsis to
\* the trailing dims; the result's dims are the unbound dims of f in their
\* original order (Tensor and Function).
C8_CallBinding ==
  call.op = "call" /\ PlainCall(call.self, call.args, call.kwargs) /\ res.ok =>
    res.val.dims = Without(call.self.dims, BoundDims(call.self, call.args, call.kwargs))

\* C9: substituting a rename-string new for dim d of a Tensor (new # d, new
\* not a dim) puts new at d's position and leaves the data unchanged.
C9_Rename ==
  LET self == call.self
      d == call.kwargs[1][1]
      new == call.kwargs[1][2].s
  IN call.op = "rename" /\ self.kind = "Tensor" /\ d \in Range(self.dims)
       /\ new # d /\ new \notin Range(self.dims)
     => /\ res.ok
        /\ res.val.dims = [self.dims EXCEPT ![IndexOf(self.dims, d)] = new]
        /\ res.val.data = self.data

\* C10: substituting a Tensor-valued index v for dim d (at position pos) of
\* a Tensor f yields dims f.dims[:pos] + v.dims + f.dims[pos+1:]; when a dim
\* of v other than d is a dim of f the call raises the unsupported-
\* substitution error and returns no funsor.
GatherCollides(self, d, v) == \E x \in Range(v.dims) : x # d /\ x \in Range(self.dims)
C10_Gather ==
  LET self == call.self
      d == call.kwargs[1][1]
      v == call.kwargs[1][2].v
  IN call.op = "gather" /\ self.kind = "Tensor" /\ d \in Range(self.dims) =>
       IF GatherCollides(self, d, v)
       THEN ~res.ok /\ res.err = "NotImplementedError: TODO" /\ f = self
       ELSE /\ res.ok => res.val.dims = Splice(self.dims, IndexOf(self.dims, d), v.dims)
            /\ (\A i \in DOMAIN v.data : v.data[i] < self.shape[IndexOf(self.dims, d)]) => res.ok
C10_Witness ==
  /\ call.op = "gather" /\ call.self.kind = "Tensor"
  /\ ~res.ok /\ res.err = "NotImplementedError: TODO"
  /\ GatherCollides(call.self, call.kwargs[1][1], call.kwargs[1][2].v)

\* ==================================================== sum-product engine
\* src/funsor/sum_product.py works on the terms of funsor.terms and
\* funsor.torch.  A term is a record [dims, shape, data]: its inputs are the
\* ordered dict dims[k] -> bint(shape[k]) and data is the dense table.
Number(n) == [dims |-> <<>>, shape |-> <<>>, data |-> (<<>> :> n)]
\* UNITS[prod_op]
UNITS(op) == IF op = "mul" THEN 1 ELSE 0

\* prod_op(l, r): elementwise, broadcast by name; the inputs of l come first.
TermBinary(op, l, r) ==
  LET extra == Without(r.dims, Range(l.dims))
      dims == l.dims \o extra
      shape == l.shape \o [k \in 1..Len(extra) |-> r.shape[IndexOf(r.dims, extra[k])]]
  IN [dims |-> dims, shape |-> shape,
      data |-> [i \in Idx(shape) |->
                  ApplyOp(op, NamedAt(l, dims, i), NamedAt(r, dims, i))]]

RECURSIVE FoldTable(_, _, _, _)
FoldTable(op, g, shape, k) ==
  IF k = 0 THEN g[Unravel(0, shape)]
  ELSE ApplyOp(op, FoldTable(op, g, shape, k-1), g[Unravel(k, shape)])

\* x.reduce(op, vars): fold op over the inputs of x that are in vars.
TermReduce(op, x, reduced) ==
  LET n == Len(x.dims)
      kept == {p \in 1..n : x.dims[p] \notin reduced}
      Rank(S, p) == Cardinality({q \in S : q <= p})
      Sub(S) == [k \in 1..Cardinality(S) |-> x.shape[CHOOSE p \in S : Rank(S, p) = k]]
      shape == Sub(kept)
      rshape == Sub((1..n) \ kept)
      Full(i, j) == [p \in 1..n |-> IF p \in kept THEN i[Rank(kept, p)]
                                    ELSE j[Rank((1..n) \ kept, p)]]
  IN [dims |-> Without(x.dims, reduced), shape |-> shape,
      data |-> [i \in Idx(shape) |->
                  FoldTable(op, [j \in Idx(rshape) |-> x.data[Full(i, j)]],
                            rshape, Numel(rshape) - 1)]]

\* functools.reduce(prod_op, terms, init)
RECURSIVE FoldTerms(_, _, _)
FoldTerms(op, terms, init) ==
  IF terms = <<>> THEN init
  ELSE FoldTerms(op, Tail(terms), TermBinary(op, init, Head(terms)))

\* ---- ordered dicts (sequences of <<key, value>> pairs)
HasKey(d, key) == \E k \in 1..Len(d) : d[k][1] = key
DictPop(d, key) == SelectSeq(d, LAMBDA e : e[1] # key)
\* d[key].append(v) on a defaultdict(list) / d.setdefault(key, []).append(v)
DictAppend(d, key, v) ==
  DictSet(d, key, IF HasKey(d, key) THEN Append(DictGet(d, key), v) ELSE <<v>>)

\* ---- _partition(terms, sum_vars)
\* A node of the bipartite graph: the k-th term of the bucket, or a dim.
TermNode(k) == [term |-> TRUE, k |-> k, dim |-> ""]
DimNode(d) == [term |-> FALSE, k |-> 0, dim |-> d]

\* for dim in term.inputs.keys(): if dim in sum_vars: (two appends)
RECURSIVE AddEdges(_, _, _, _)
AddEdges(neighbors, k, dims, sum_vars) ==
  IF dims = <<>> THEN neighbors
  ELSE IF Head(dims) \in sum_vars
  THEN AddEdges(DictAppend(DictAppend(neighbors, TermNode(k), DimNode(Head(dims))),
                           DimNode(Head(dims)), TermNode(k)),
                k, Tail(dims), sum_vars)
  ELSE AddEdges(neighbors, k, Tail(dims), sum_vars)

RECURSIVE Neighbors(_, _, _, _)
Neighbors(neighbors, terms, k, sum_vars) ==
  IF k > Len(terms) THEN neighbors
  ELSE Neighbors(AddEdges(neighbors, k, terms[k].dims, sum_vars), terms, k+1, sum_vars)

\* while pending: v = pending.pop(); for v in neighbors.pop(v): ...
RECURSIVE Grow(_, _, _)
Grow(neighbors, component, pending) ==
  IF pending = <<>> THEN [neighbors |-> neighbors, component |-> component]
  ELSE LET v == pending[Len(pending)]
           new == SelectSeq(DictGet(neighbors, v), LAMBDA w : w \notin Range(component))
       IN Grow(DictPop(neighbors, v), component \o new,
               SubSeq(pending, 1, Len(pending)-1) \o new)

\* while neighbors: v, pending = neighbors.popitem(); ...
RECURSIVE Components(_, _, _)
Components(neighbors, terms, components) ==
  IF neighbors = <<>> THEN components
  ELSE LET last == neighbors[Len(neighbors)]
           g == Grow(SubSeq(neighbors, 1, Len(neighbors)-1),
                     <<last[1]>> \o last[2], last[2])
           component_terms == SelectSeq(g.component, LAMBDA v : v.term)
           component_dims == {v.dim : v \in {w \in Range(g.component) : ~w.term}}
       IN Components(g.neighbors, terms,
                     IF component_terms # <<>>
                     THEN Append(components,
                                 [terms |-> [k \in 1..Len(component_terms) |->
                                               terms[component_terms[k].k]],
                                  dims |-> component_dims])
                     ELSE components)

\* Variant without the connected-component analysis: every term alone.
PartitionSingletons(terms, sum_vars) ==
  [k \in 1..Len(terms) |->
     [terms |-> <<terms[k]>>, dims |-> sum_vars \cap Range(terms[k].dims)]]
Partition(terms, sum_vars) ==
  Components(Neighbors([k \in 1..Len(terms) |-> <<TermNode(k), <<>>>>],
                       terms, 1, sum_vars),
             terms, <<>>)

\* ---- partial_sum_product / sum_product
\* line 64: plates.intersection(f.inputs)
Ordinal(plates, x) == plates \cap Range(x.dims)

\* lines 66-67, for one factor
VarToOrdinalAdd(var_to_ordinal, sum_vars, plates, x) ==
  LET here == sum_vars \cap Range(x.dims)
      ordinal == Ordinal(plates, x)
  IN [v \in DOMAIN var_to_ordinal \cup here |->
        IF v \in here
        THEN (IF v \in DOMAIN var_to_ordinal THEN var_to_ordinal[v] ELSE ordinal)
               \cap ordinal
        ELSE var_to_ordinal[v]]

\* lines 63-67: the loop over the factors
RECURSIVE GroupFactors(_, _, _, _, _)
GroupFactors(factors, sum_vars, plates, var_to_ordinal, ordinal_to_factors) ==
  IF factors = <<>>
  THEN [var_to_ordinal |-> var_to_ordinal, ordinal_to_factors |-> ordinal_to_factors]
  ELSE GroupFactors(Tail(factors), sum_vars, plates,
                    VarToOrdinalAdd(var_to_ordinal, sum_vars, plates, Head(factors)),
                    DictAppend(ordinal_to_factors, Ordinal(plates, Head(factors)),
                               Head(factors)))

\* lines 69-71, and the lookup ordinal_to_vars[leaf] of a defaultdict(set)
OrdinalToVars(var_to_ordinal, ordinal) ==
  {v \in DOMAIN var_to_ordinal : var_to_ordinal[v] = ordinal}

\* Variant of line 75 that takes the first bucket holding the most factors.
LeafMostFactors(ordinal_to_factors) ==
  LET k == CHOOSE k \in 1..Len(ordinal_to_factors) :
             /\ \A j \in 1..Len(ordinal_to_factors) :
                  Len(ordinal_to_factors[j][2]) <= Len(ordinal_to_factors[k][2])
             /\ \A j \in 1..(k-1) :
                  Len(ordinal_to_factors[j][2]) < Len(ordinal_to_factors[k][2])
  IN ordinal_to_factors[k][1]
\* line 75: max(ordinal_to_factors, key=len), the first key of maximal size
Leaf(ordinal_to_factors) ==
  LET keys == DictKeys(ordinal_to_factors)
      k == CHOOSE k \in 1..Len(keys) :
             /\ \A j \in 1..Len(keys) : Cardinality(keys[j]) <= Cardinality(keys[k])
             /\ \A j \in 1..(k-1) : Cardinality(keys[j]) < Cardinality(keys[k])
  IN keys[k]

\* line 79: reduce(prod_op, group_factors).reduce(sum_op, group_vars)
Contraction(sum_op, prod_op, group) ==
  TermReduce(sum_op, FoldTerms(prod_op, Tail(group.terms), Head(group.terms)), group.dims)

\* lines 84-85
NewPlates(var_to_ordinal, remaining_sum_vars) ==
  UNION {var_to_ordinal[v] : v \in remaining_sum_vars}

\* Variants of the test of line 86.
IsIntractableNever(new_plates, leaf) == FALSE
IsIntractableEmpty(new_plates, leaf) == new_plates = {}
\* line 86
IsIntractable(new_plates, leaf) == new_plates = leaf

\* Variant of line 82 that reduces no plate of a finished factor.
ResultPlatesNone(leaf, eliminate) == {}
\* line 82: leaf & eliminate, the plates reduced away from a finished factor
ResultPlates(leaf, eliminate) == leaf \cap eliminate

\* The frame of sum_product(sum_op, prod_op, factors, eliminate, plates) on
\* entry.  ret is <<results>> once partial_sum_product has returned, value is
\* <<v>> once sum_product has returned; created records that line 89 has
\* created a bucket.
Frame(sum_op, prod_op, factors, eliminate, plates) ==
  [pc |-> "start", sum_op |-> sum_op, prod_op |-> prod_op, factors |-> factors,
   eliminate |-> eliminate, plates |-> plates, sum_vars |-> {},
   var_to_ordinal |-> <<>>, ordinal_to_factors |-> <<>>,
   leaf |-> {}, groups |-> <<>>, results |-> <<>>,
   created |-> FALSE, ret |-> <<>>, value |-> <<>>, err |-> ""]

\* lines 59-73
SetupStep(s) ==
  LET sum_vars == s.eliminate \ s.plates
      g == GroupFactors(s.factors, sum_vars, s.plates, <<>>, <<>>)
  IN [s EXCEPT !.pc = "loop", !.sum_vars = sum_vars,
               !.var_to_ordinal = g.var_to_ordinal,
               !.ordinal_to_factors = g.ordinal_to_factors]

\* lines 76-78 for a given leaf
PopStep(s, leaf) ==
  [s EXCEPT !.pc = "group", !.leaf = leaf,
            !.ordinal_to_factors = DictPop(@, leaf),
            !.groups = Partition(DictGet(s.ordinal_to_factors, leaf),
                                 OrdinalToVars(s.var_to_ordinal, leaf))]

\* lines 79-89 for the next group of the bucket
GroupStep(s) ==
  LET x == Contraction(s.sum_op, s.prod_op, Head(s.groups))
      remaining_sum_vars == s.sum_vars \cap Range(x.dims)
      new_plates == NewPlates(s.var_to_ordinal, remaining_sum_vars)
      rest == [s EXCEPT !.groups = Tail(@),
                        !.pc = IF Tail(s.groups) = <<>> THEN "loop" ELSE "group"]
  IN IF remaining_sum_vars = {}
     THEN [rest EXCEPT !.results =
             Append(@, TermReduce(s.prod_op, x, ResultPlates(s.leaf, s.eliminate)))]
     ELSE IF IsIntractable(new_plates, s.leaf)
     THEN [s EXCEPT !.pc = "error", !.err = "ValueError: intractable!"]
     ELSE [rest EXCEPT !.ordinal_to_factors =
             DictAppend(@, new_plates, TermReduce(s.prod_op, x, s.leaf \ new_plates)),
                       !.created = @ \/ ~HasKey(s.ordinal_to_factors, new_plates)]

\* line 91
ReturnStep(s) == [s EXCEPT !.pc = "returned", !.ret = <<s.results>>]

\* Variant of the fold of line 102 that keeps only the last result.
SumProductFoldLast(prod_op, results) ==
  IF results = <<>> THEN Number(UNITS(prod_op)) ELSE results[Len(results)]
\* Variant of the fold of line 102 seeded with zero whatever prod_op is.
SumProductFoldZero(prod_op, results) == FoldTerms(prod_op, results, Number(0))
\* line 102: reduce(prod_op, factors, Number(UNITS[prod_op]))
SumProductFold(prod_op, results) == FoldTerms(prod_op, results, Number(UNITS(prod_op)))

FoldStep(s) ==
  [s EXCEPT !.pc = "done", !.value = <<SumProductFold(s.prod_op, s.ret[1])>>]

\* One step of the call, with the bucket the code picks.
Step(s) ==
  CASE s.pc = "start" -> SetupStep(s)
    [] s.pc = "loop" /\ s.ordinal_to_factors # <<>> -> PopStep(s, Leaf(s.ordinal_to_factors))
    [] s.pc = "loop" /\ s.ordinal_to_factors = <<>> -> ReturnStep(s)
    [] s.pc = "group" -> GroupStep(s)
    [] s.pc = "returned" -> FoldStep(s)
    [] OTHER -> s

\* ---- inputs of sum_product
MaxFactors == 3
\* Entries 1..3 so that products over plates stay small.
FactorTable(shape, seed) == [i \in Idx(shape) |-> 1 + ((seed + Flat(i, shape)) % 3)]
Factor(dims, seed) ==
  [dims |-> dims, shape |-> ShapeOf(dims), data |-> FactorTable(ShapeOf(dims), seed)]
FactorChoices ==
  {Factor(<<>>, 1), Factor(<<"x">>, 0), Factor(<<"x", "y">>, 1),
   Factor(<<"i", "x">>, 0), Factor(<<"j", "x">>, 1), Factor(<<"j", "y">>, 2),
   Factor(<<"i", "j", "x", "y">>, 0)}
RECURSIVE Lists(_, _)
Lists(S, n) ==
  IF n = 0 THEN {<<>>}
  ELSE Lists(S, n-1) \cup {Append(l, e) : l \in Lists(S, n-1), e \in S}
AllDims(factors) == UNION {Range(factors[k].dims) : k \in 1..Len(factors)}
PlateChoices == {{}, {"i"}, {"i", "j"}}
EliminateChoices(factors) ==
  {AllDims(factors), AllDims(factors) \ {"y"}, AllDims(factors) \ {"i", "j"}}

\* Before the call.
IdleSP == [Frame("", "", <<>>, {}, {}) EXCEPT !.pc = "idle"]
InitSP ==
  /\ sp = IdleSP
  /\ f = NoF /\ call = NoCall /\ res = Ok(NoF) /\ nops = 0 /\ sq = NoFrame /\ vr = NoFrame

\* sum_product(sum_op, prod_op, factors, eliminate, plates) is called.
SumProductCall ==
  /\ sp.pc = "idle"
  /\ \E sr \in SemiringPairs, factors \in Lists(FactorChoices, MaxFactors),
        plates \in PlateChoices :
       \E eliminate \in EliminateChoices(factors) :
         sp' = Frame(sr[1], sr[2], factors, eliminate, plates)
  /\ UNCHANGED <<f, call, res, nops, sq, vr>>
Setup ==
  /\ sp.pc = "start"
  /\ sp' = SetupStep(sp)
  /\ UNCHANGED <<f, call, res, nops, sq, vr>>
PopLeaf ==
  /\ sp.pc = "loop" /\ sp.ordinal_to_factors # <<>>
  /\ sp' = PopStep(sp, Leaf(sp.ordinal_to_factors))
  /\ UNCHANGED <<f, call, res, nops, sq, vr>>
ContractGroup ==
  /\ sp.pc = "group"
  /\ sp' = GroupStep(sp)
  /\ UNCHANGED <<f, call, res, nops, sq, vr>>
ReturnResults ==
  /\ sp.pc = "loop" /\ sp.ordinal_to_factors = <<>>
  /\ sp' = ReturnStep(sp)
  /\ UNCHANGED <<f, call, res, nops, sq, vr>>
FoldResults ==
  /\ sp.pc = "returned"
  /\ sp' = FoldStep(sp)
  /\ UNCHANGED <<f, call, res, nops, sq, vr>>

NextSP == SumProductCall \/ Setup \/ PopLeaf \/ ContractGroup \/ ReturnResults \/ FoldResults
SpecSP == InitSP /\ [][NextSP]_vars
\* Once called, the interpreter keeps running the call until it returns or
\* raises: every step of the call is weakly fair.  For PopLeaf and
\* ContractGroup the condition WF_vars(A) is written out as
\* []<>~ENABLED <<A>>_vars \/ []<><<A>>_vars with the guard of A for ENABLED
\* (each of them changes sp.pc or sp.groups whenever its guard holds).
SpecSPFair ==
  /\ SpecSP
  /\ WF_vars(Setup \/ ReturnResults \/ FoldResults)
  /\ ([]<>(sp.pc # "loop" \/ sp.ordinal_to_factors = <<>>) \/ []<><<PopLeaf>>_vars)
  /\ ([]<>(sp.pc # "group") \/ []<><<ContractGroup>>_vars)

TypeOKSP ==
  /\ sp.pc \in {"idle", "start", "loop", "group", "returned", "done", "error"}
  /\ sp.pc = "group" => sp.groups # <<>>
  /\ (sp.value # <<>>) = (sp.pc = "done")
  /\ (sp.ret # <<>>) = (sp.pc \in {"returned", "done"})

\* ------------------------------------------------- claims on sum_product
\* Multiply all factors together (broadcast by name), then sum-reduce over
\* every dimension.
BruteForce(factors) ==
  TermReduce("add", FoldTerms("mul", factors, Number(1)), AllDims(factors))
NoPlatesCase(s) ==
  /\ s.sum_op = "add" /\ s.prod_op = "mul"
  /\ s.plates = {} /\ s.eliminate = AllDims(s.factors)

\* C3: with plates = {} and eliminate = all dims of the factors,
\* sum_product(add, mul, factors, eliminate, plates) does not raise and
\* returns the brute-force value: the product of all factors summed over
\* every dimension.
C3_NoPlatesBruteForce ==
  NoPlatesCase(sp) =>
    /\ sp.pc # "error"
    /\ sp.pc = "done" => sp.value = <<BruteForce(sp.factors)>>
C3_Witness ==
  /\ NoPlatesCase(sp) /\ sp.pc = "done"
  /\ Len(sp.factors) = 3 /\ {"x", "y"} \subseteq AllDims(sp.factors)
  /\ Len(sp.results) = 2

\* The next component of the bucket leaves a residual factor whose remaining
\* sum-variables have ordinals whose union is the ordinal of the bucket.
Stuck(s) ==
  /\ s.pc = "group"
  /\ LET x == Contraction(s.sum_op, s.prod_op, Head(s.groups))
         remaining == s.sum_vars \cap Range(x.dims)
     IN remaining # {} /\ UNION {s.var_to_ordinal[v] : v \in remaining} = s.leaf

\* C5: when the union of the ordinals of the residual factor's remaining
\* sum-variables equals the ordinal of the bucket being processed,
\* partial_sum_product raises the intractable error: no result list and no
\* value is returned, and nothing runs after the error.
C5_Intractable ==
  [][/\ Stuck(sp) => /\ sp'.pc = "error" /\ sp'.err = "ValueError: intractable!"
                     /\ sp'.ret = <<>> /\ sp'.value = <<>>
     /\ sp.pc # "error"]_vars
C5_Witness ==
  /\ sp.pc = "error" /\ sp.err = "ValueError: intractable!"
  /\ sp.leaf = {"i", "j"} /\ sp.ret = <<>>

\* C6: the bucket loop of partial_sum_product stops on every input: a call
\* that has started eventually returns (every bucket consumed, re-inserted
\* ones included) or raises the intractable error.
C6_Terminates == (sp.pc = "start") ~> (sp.pc \in {"done", "error"})
C6_Witness == sp.pc = "done" /\ sp.created

\* The call run to its end from frame s.
RECURSIVE Run(_)
Run(s) == IF s.pc \in {"done", "error"} THEN s ELSE Run(Step(s))
\* Two terms denote the same named-dimension value.
SameTerm(x, y) ==
  /\ Range(x.dims) = Range(y.dims)
  /\ \A k \in 1..Len(x.dims) : x.shape[k] = y.shape[IndexOf(y.dims, x.dims[k])]
  /\ \A i \in Idx(x.shape) : x.data[i] = NamedAt(y, x.dims, i)
\* Two runs end the same way: both raise, or both return the same value.
SameEnd(a, b) == a.pc = b.pc /\ (a.pc = "done" => SameTerm(a.value[1], b.value[1]))
SameOutcome(s, t) == SameEnd(Run(s), Run(t))
BucketVars(s, key) ==
  s.sum_vars \cap AllDims(DictGet(s.ordinal_to_factors, key))
\* The pending buckets that share no sum-variable with another pending bucket.
Independent(s) ==
  LET keys == Range(DictKeys(s.ordinal_to_factors))
  IN {a \in keys : \A b \in keys \ {a} : BucketVars(s, a) \cap BucketVars(s, b) = {}}

\* C7: whichever of the pending buckets that share no sum-variable with
\* another bucket is processed first, sum_product ends the same way with
\* the same value (the prod_op-fold of the results); the same holds when
\* the factors are passed in another order and all buckets are independent.
C7_BucketOrder ==
  /\ sp.pc = "loop" /\ sp.ordinal_to_factors # <<>> =>
       \A a \in Independent(sp) \ {Leaf(sp.ordinal_to_factors)} :
         SameOutcome(PopStep(sp, a), sp)
  /\ sp.pc = "start" =>
       \A p \in Permutations(1..Len(sp.factors)) :
         LET q == [sp EXCEPT !.factors = [k \in 1..Len(sp.factors) |-> sp.factors[p[k]]]]
         IN Independent(SetupStep(q)) = Range(DictKeys(SetupStep(q).ordinal_to_factors))
            => SameOutcome(q, sp)
C7_Witness ==
  /\ sp.pc = "loop" /\ Run(sp).pc = "done"
  /\ \E a \in Independent(sp) :
       /\ a # Leaf(sp.ordinal_to_factors)
       /\ Cardinality(a) = Cardinality(Leaf(sp.ordinal_to_factors))
       /\ Leaf(sp.ordinal_to_factors) \in Independent(sp)
       /\ Run(PopStep(sp, a)).results # Run(sp).results

\* ================================================ sequential_sum_product
\* Terms here carry their output dtype: [dims, shape, data, dtype].
Typed(x, dtype) == [dims |-> x.dims, shape |-> x.shape, data |-> x.data, dtype |-> dtype]

\* x(**{d: new}) with a string: d is renamed in place.
TermRename(x, d, new) ==
  IF d \notin Range(x.dims) THEN x
  ELSE [x EXCEPT !.dims[IndexOf(x.dims, d)] = new]
\* x(**{d: n}) with a number: d is bound to index n.
TermIndex(x, d, n) ==
  IF d \notin Range(x.dims) THEN x
  ELSE LET pos == IndexOf(x.dims, d)
           shape == Remove(x.shape, pos)
       IN [x EXCEPT !.dims = Remove(x.dims, pos), !.shape = shape,
                    !.data = [i \in Idx(shape) |-> x.data[Insert(i, pos, n)]]]
\* x(**{d: index}) with an integer tensor: d is replaced by the inputs of index.
TermGather(x, d, index) ==
  IF d \notin Range(x.dims) THEN x
  ELSE LET pos == IndexOf(x.dims, d)
           k == Len(index.dims)
           shape == Splice(x.shape, pos, index.shape)
       IN [x EXCEPT !.dims = Splice(x.dims, pos, index.dims), !.shape = shape,
                    !.data = [i \in Idx(shape) |->
                                x.data[SubSeq(i, 1, pos-1)
                                       \o <<index.data[SubSeq(i, pos, pos+k-1)]>>
                                       \o SubSeq(i, pos+k, Len(i))]]]

\* len(torch.arange(start, stop, step)) for step > 0
ArangeLen(start, stop, step) ==
  IF stop <= start THEN 0 ELSE (stop - start + step - 1) \div step

\* Slice(name, start, stop, step, bound)
Slice(name, start, stop, step, bound) ==
  IF step <= 0 THEN Fail("ValueError")
  ELSE LET n == ArangeLen(start, stop, step)
       IN Ok([dims |-> <<name>>, shape |-> <<n>>,
              data |-> [i \in Idx(<<n>>) |-> start + step * i[1]],
              dtype |-> bound])

\* inputs = OrderedDict(); for x in parts: inputs.update(x.inputs)
RECURSIVE CatInputs(_, _)
CatInputs(inputs, parts) ==
  IF parts = <<>> THEN inputs
  ELSE CatInputs(DictUpdate(inputs, Zip(Head(parts).dims, Head(parts).shape)),
                 Tail(parts))
\* The offset of part k along the concatenated dim.
RECURSIVE CatOffset(_, _, _)
CatOffset(parts, name, k) ==
  IF k = 1 THEN 0
  ELSE CatOffset(parts, name, k-1)
         + parts[k-1].shape[IndexOf(parts[k-1].dims, name)]

\* Cat(parts, name)
Cat(parts, name) ==
  IF Len(parts) = 1 THEN Ok(parts[1])
  ELSE IF Cardinality({parts[k].dtype : k \in 1..Len(parts)}) > 1
  THEN Fail("NotImplementedError: TODO")
  ELSE IF \E k \in 1..Len(parts) : name \notin Range(parts[k].dims)
  THEN Fail("KeyError")
  ELSE LET inputs == CatInputs(<<>>, parts)
           dims == DictKeys(inputs)
           dim == IndexOf(dims, name)
           total == CatOffset(parts, name, Len(parts) + 1)
           shape == [p \in 1..Len(dims) |-> IF p = dim THEN total ELSE inputs[p][2]]
           PartAt(t) == CHOOSE k \in 1..Len(parts) :
                          /\ CatOffset(parts, name, k) <= t
                          /\ t < CatOffset(parts, name, k+1)
       IN Ok([dims |-> dims, shape |-> shape,
              data |-> [i \in Idx(shape) |->
                          LET k == PartAt(i[dim])
                          IN NamedAt(parts[k], dims,
                                     [i EXCEPT ![dim] = @ - CatOffset(parts, name, k)])],
              dtype |-> parts[1].dtype])

\* line 180
EvenDuration(duration) == (duration \div 2) * 2
\* Variant of the test of line 186 that never keeps the leftover slice.
HasExtraNever(duration, even_duration) == FALSE
\* line 186
HasExtra(duration, even_duration) == duration > even_duration

\* lines 179-189: one round of the loop; the result is the new trans.
SeqRound(sum_op, prod_op, trans, time, prev, curr) ==
  LET duration == trans.shape[IndexOf(trans.dims, time)]
      even_duration == EvenDuration(duration)
      xs == Slice(time, 0, even_duration, 2, duration)
      ys == Slice(time, 1, even_duration, 2, duration)
      x == TermRename(TermGather(trans, time, xs.val), curr, "_drop")
      y == TermRename(TermGather(trans, time, ys.val), prev, "_drop")
      contracted == Typed(TermReduce(sum_op, TermBinary(prod_op, x, y), {"_drop"}),
                          trans.dtype)
      es == Slice(time, duration - 1, duration, 1, duration)
  IN IF HasExtra(duration, even_duration)
     THEN Cat(<<contracted, TermGather(trans, time, es.val)>>, time)
     ELSE Ok(contracted)

\* ---- inputs of sequential_sum_product
MaxTime == 5
SeqSeeds == {0, 1, 2}
TransDims == {<<"time", "prev", "curr">>, <<"prev", "curr", "time">>,
              <<"curr", "time", "prev">>}
\* A transition tensor with entries 0..3; its slices along time do not commute.
Trans(dims, T, seed) ==
  LET shape == [k \in 1..3 |-> IF dims[k] = "time" THEN T ELSE Size(dims[k])]
  IN [dims |-> dims, shape |-> shape,
      data |-> [i \in Idx(shape) |-> (seed + Flat(i, shape) * (Flat(i, shape) + 1)) % 4],
      dtype |-> "real"]

SeqFrame(sum_op, prod_op, trans) ==
  [pc |-> "loop", sum_op |-> sum_op, prod_op |-> prod_op, trans0 |-> trans,
   trans |-> trans, rounds |-> 0, cats |-> 0, ret |-> <<>>, err |-> ""]
IdleSeq == [SeqFrame("", "", Number(0)) EXCEPT !.pc = "idle"]

InitSeq ==
  /\ sq = IdleSeq
  /\ f = NoF /\ call = NoCall /\ res = Ok(NoF) /\ nops = 0 /\ sp = NoFrame /\ vr = NoFrame

\* sequential_sum_product(sum_op, prod_op, trans, "time", "prev", "curr") is called.
SequentialCall ==
  /\ sq.pc = "idle"
  /\ \E sr \in SemiringPairs, dims \in TransDims, T \in 1..MaxTime, seed \in SeqSeeds :
       sq' = SeqFrame(sr[1], sr[2], Trans(dims, T, seed))
  /\ UNCHANGED <<f, call, res, nops, sp, vr>>

TimeSize(trans) == trans.shape[IndexOf(trans.dims, "time")]

\* lines 178-189: one iteration of the while loop
SeqLoop ==
  /\ sq.pc = "loop" /\ TimeSize(sq.trans) > 1
  /\ LET r == SeqRound(sq.sum_op, sq.prod_op, sq.trans, "time", "prev", "curr")
     IN sq' = IF r.ok
              THEN [sq EXCEPT !.trans = r.val, !.rounds = @ + 1,
                              !.cats = @ + (IF TimeSize(sq.trans) % 2 = 1 THEN 1 ELSE 0)]
              ELSE [sq EXCEPT !.pc = "error", !.err = r.err]
  /\ UNCHANGED <<f, call, res, nops, sp, vr>>

\* line 190: return trans(**{time: 0})
SeqReturn ==
  /\ sq.pc = "loop" /\ TimeSize(sq.trans) <= 1
  /\ sq' = [sq EXCEPT !.pc = "done", !.ret = <<TermIndex(sq.trans, "time", 0)>>]
  /\ UNCHANGED <<f, call, res, nops, sp, vr>>

NextSeq == SequentialCall \/ SeqLoop \/ SeqReturn
SpecSeq == InitSeq /\ [][NextSeq]_vars

\* ---------------------------------------- claim on sequential_sum_product
\* trans[t, prev = a, curr = b]
TransAt(trans, t, a, b) ==
  NamedAt(trans, <<"time", "prev", "curr">>, <<t, a, b>>)
\* The entry (a, b) of the ordered product trans[0] x ... x trans[k], summed
\* over the intermediate states.
RECURSIVE Chain(_, _, _, _)
Chain(trans, k, a, b) ==
  IF k = 0 THEN TransAt(trans, 0, a, b)
  ELSE LET P(c) == Chain(trans, k-1, a, c) * TransAt(trans, k, c, b)
       IN P(0) + P(1)
\* The same product with the time order reversed.
RECURSIVE ChainReversed(_, _, _, _)
ChainReversed(trans, k, a, b) ==
  IF k = 0 THEN TransAt(trans, 0, a, b)
  ELSE LET P(c) == TransAt(trans, k, a, c) * ChainReversed(trans, k-1, c, b)
       IN P(0) + P(1)

\* C4: for T in 1..5, sum_op = add, prod_op = mul and a 2-state transition
\* tensor, sequential_sum_product returns a term over prev and curr whose
\* entry at every boundary pair (s0, sT) is the ordered chain product
\* trans[0] x trans[1] x ... x trans[T-1] summed over the intermediate states.
C4_ChainProduct ==
  sq.pc \in {"done", "error"} /\ sq.sum_op = "add" /\ sq.prod_op = "mul"
    /\ TimeSize(sq.trans0) \in 1..5 =>
    /\ sq.pc = "done"
    /\ Range(sq.ret[1].dims) = {"prev", "curr"}
    /\ \A a, b \in 0..1 :
         NamedAt(sq.ret[1], <<"prev", "curr">>, <<a, b>>)
           = Chain(sq.trans0, TimeSize(sq.trans0) - 1, a, b)
C4_Witness ==
  /\ sq.pc = "done" /\ sq.sum_op = "add" /\ sq.prod_op = "mul"
  /\ TimeSize(sq.trans0) = 5 /\ sq.cats = 2
  /\ \E a, b \in 0..1 : Chain(sq.trans0, 4, a, b) # ChainReversed(sq.trans0, 4, a, b)

\* ------------------------------------------- further claims on sum_product
\* The identity element of prod_op.
Identity(op) == CASE op = "mul" -> 1 [] op = "add" -> 0
\* The prod_op-fold of results[1..k], seeded with the identity of prod_op.
RECURSIVE SeededFold(_, _, _)
SeededFold(op, results, k) ==
  IF k = 0 THEN Number(Identity(op))
  ELSE TermBinary(op, SeededFold(op, results, k-1), results[k])

\* C18: the value of sum_product is the prod_op-fold of the list that
\* partial_sum_product returned, seeded with the identity element of
\* prod_op; for an empty factor collection it is that identity element.
C18_FoldOfPartial ==
  sp.pc = "done" =>
    /\ sp.value = <<SeededFold(sp.prod_op, sp.ret[1], Len(sp.ret[1]))>>
    /\ sp.factors = <<>> => sp.value = <<Number(Identity(sp.prod_op))>>
C18_Witness ==
  /\ sp.pc = "done" /\ sp.factors = <<>> /\ sp.prod_op = "mul"
  /\ sp.value = <<Number(1)>>

\* The step pops the bucket at position k of the pending buckets.
PopsAt(k) ==
  /\ sp.pc = "loop" /\ sp'.pc = "group"
  /\ k \in 1..Len(sp.ordinal_to_factors)
  /\ sp.ordinal_to_factors[k][1] = sp'.leaf
\* Position k is the first one that maximises Measure over the pending buckets.
FirstMax(k, Measure(_)) ==
  /\ \A j \in 1..Len(sp.ordinal_to_factors) : Measure(j) <= Measure(k)
  /\ \A j \in 1..(k-1) : Measure(j) < Measure(k)

\* C19 as stated: at every iteration the bucket chosen holds the largest
\* number of factors among the pending buckets, ties resolved by insertion
\* order.
C19_MostFactors ==
  [][\A k \in 1..Len(sp.ordinal_to_factors) :
       PopsAt(k) => FirstMax(k, LAMBDA j : Len(sp.ordinal_to_factors[j][2]))]_vars
\* C19 amended: at every iteration the bucket chosen is the pending bucket
\* whose ordinal has the largest number of plate dims, ties resolved by
\* insertion order; the number of factors it holds plays no part.
C19_MostPlates ==
  [][\A k \in 1..Len(sp.ordinal_to_factors) :
       PopsAt(k) => FirstMax(k, LAMBDA j : Cardinality(sp.ordinal_to_factors[j][1]))]_vars
\* The bucket of the most plates is being processed while a pending bucket
\* held more factors.
C19_Witness ==
  /\ sp.pc = "group" /\ sp.leaf = {"i"} /\ sp.results = <<>>
  /\ Len(Head(sp.groups).terms) = 1 /\ Len(sp.groups) = 1
  /\ \E k \in 1..Len(sp.ordinal_to_factors) :
       /\ sp.ordinal_to_factors[k][1] = {}
       /\ Len(sp.ordinal_to_factors[k][2]) = 2


\* ---------------------------- further claims on partial_sum_product
\* The factors of terms that a chain of shared variables of svars links to
\* one of the factors in S (S included).
RECURSIVE LinkedTo(_, _, _)
LinkedTo(terms, svars, S) ==
  LET T == S \cup {j \in 1..Len(terms) :
                     \E i \in S : Range(terms[i].dims) \cap Range(terms[j].dims)
                                    \cap svars # {}}
  IN IF T = S THEN S ELSE LinkedTo(terms, svars, T)
\* The places <<c, k>> of the components: term k of component c.
Places(comps) ==
  UNION {{<<c, k>> : k \in 1..Len(comps[c].terms)} : c \in 1..Len(comps)}
\* comps is the partition of terms into the connected components of the
\* graph between the factors and the variables of svars.
IsPartition(terms, svars, comps) ==
  LET n == Len(terms) IN
  /\ \A c \in 1..Len(comps) : comps[c].terms # <<>>
  /\ Cardinality(Places(comps)) = n
  /\ \E g \in [1..n -> Places(comps)] :
       /\ \A i, j \in 1..n : g[i] = g[j] => i = j
       /\ \A i \in 1..n : comps[g[i][1]].terms[g[i][2]] = terms[i]
       /\ \A i, j \in 1..n : (g[i][1] = g[j][1]) <=> (j \in LinkedTo(terms, svars, {i}))
       /\ \A i \in 1..n :
            comps[g[i][1]].dims =
              svars \cap UNION {Range(terms[j].dims) : j \in LinkedTo(terms, svars, {i})}

\* C21: when a bucket is popped, _partition splits its factors into the
\* connected components of the graph between the factors and the bucket's
\* own sum-variables: every factor is in exactly one component, two factors
\* share a component exactly when a chain of shared sum-variables of the
\* bucket links them, and the variables of a component are the bucket's
\* sum-variables that occur in its factors.
C21_Partition ==
  [][(sp.pc = "loop" /\ sp'.pc = "group") =>
       IsPartition(DictGet(sp.ordinal_to_factors, sp'.leaf),
                   OrdinalToVars(sp.var_to_ordinal, sp'.leaf), sp'.groups)]_vars
\* A bucket of three factors has just been split in two components, one of
\* them joining two factors over x.
C21_Witness ==
  /\ sp.pc = "group" /\ Len(sp.groups) = 2
  /\ \E c \in 1..2 : Len(sp.groups[c].terms) = 2 /\ sp.groups[c].dims = {"x"}
  /\ \E c \in 1..2 : Len(sp.groups[c].terms) = 1 /\ sp.groups[c].dims = {}


\* The step re-inserts the residual factor r under the ordinal K.
Reinserts(K, r) ==
  /\ sp.pc = "group" /\ sp'.pc \in {"loop", "group"}
  /\ HasKey(sp'.ordinal_to_factors, K)
  /\ DictGet(sp'.ordinal_to_factors, K) =
       Append(IF HasKey(sp.ordinal_to_factors, K)
              THEN DictGet(sp.ordinal_to_factors, K) ELSE <<>>, r)
\* The step re-inserts some residual factor.
ReinsertsSome ==
  sp.pc = "group" /\ sp'.pc \in {"loop", "group"}
    /\ sp'.ordinal_to_factors # sp.ordinal_to_factors

\* C22: whenever a residual factor is re-inserted, the ordinal it goes under
\* is the union of the ordinals of the sum-variables it still has, that
\* ordinal is a strict subset of the ordinal of the bucket being processed,
\* and the dims the prod_op reduction removed from the contracted group are
\* exactly the plates in the difference of the two ordinals.
C22_Reinsertion ==
  [][ReinsertsSome =>
       \E k \in 1..Len(sp'.ordinal_to_factors) :
         LET K == sp'.ordinal_to_factors[k][1]
             bucket == sp'.ordinal_to_factors[k][2]
             r == bucket[Len(bucket)]
             x == Contraction(sp.sum_op, sp.prod_op, Head(sp.groups))
             remaining == sp.sum_vars \cap Range(r.dims)
         IN /\ Reinserts(K, r)
            /\ remaining # {}
            /\ K = UNION {sp.var_to_ordinal[v] : v \in remaining}
            /\ K \subseteq sp.leaf /\ K # sp.leaf
            /\ Range(x.dims) \ Range(r.dims) = sp.leaf \ K
            /\ r = TermReduce(sp.prod_op, x, sp.leaf \ K)
            /\ sp'.ordinal_to_factors = DictAppend(sp.ordinal_to_factors, K, r)]_vars
\* The bucket of plates {i, j} has been processed and its residual factor,
\* over j and x, has joined the input factor of the bucket {j}.
C22_Witness ==
  /\ sp.pc = "loop" /\ sp.leaf = {"i", "j"} /\ Len(sp.factors) = 2
  /\ \E k \in 1..Len(sp.ordinal_to_factors) :
       /\ sp.ordinal_to_factors[k][1] = {"j"}
       /\ Len(sp.ordinal_to_factors[k][2]) = 2
       /\ Range(sp.ordinal_to_factors[k][2][2].dims) = {"j", "x"}


\* Some factor of the list mentions the dim v.
Mentions(terms, v) == \E k \in 1..Len(terms) : v \in Range(terms[k].dims)
\* v is a dim of a factor in a pending bucket, in the result list or in one
\* of the given components.
MentionedIn(s, groups, v) ==
  \/ \E k \in 1..Len(s.ordinal_to_factors) : Mentions(s.ordinal_to_factors[k][2], v)
  \/ Mentions(s.results, v)
  \/ \E c \in 1..Len(groups) : Mentions(groups[c].terms, v)

\* C23: when a component is contracted, every sum-variable v it sum-reduces
\* is mentioned by no factor outside the component (none in a pending
\* bucket, none in the result list, none in another component of the
\* bucket), and once the step is done no factor mentions v any more: v is
\* reduced once, over the product of all the factors that depend on it.
C23_ReducedOnce ==
  [][sp.pc = "group" =>
       \A v \in Head(sp.groups).dims :
         /\ v \in sp.sum_vars
         /\ Mentions(Head(sp.groups).terms, v)
         /\ ~MentionedIn(sp, Tail(sp.groups), v)
         /\ sp'.pc # "error" => ~MentionedIn(sp', sp'.groups, v)]_vars
\* The bucket without plates contracts over x the input factor over x
\* together with the residual of the factor over i and x.
C23_Witness ==
  /\ sp.pc = "group" /\ sp.leaf = {} /\ sp.plates = {"i"}
  /\ Len(sp.factors) = 2 /\ Range(sp.factors[1].dims) = {"i", "x"}
  /\ Range(sp.factors[2].dims) = {"x"}
  /\ Len(sp.groups) = 1 /\ Head(sp.groups).dims = {"x"}
  /\ Len(Head(sp.groups).terms) = 2


\* C24: when partial_sum_product returns and plates is a subset of
\* eliminate, no returned factor has a dim of eliminate (sum-variable or
\* plate), and the dims of the returned factors are together the dims of
\* the input factors that are not in eliminate: none of those is reduced.
C24_Returned ==
  (sp.pc \in {"returned", "done"} /\ sp.plates \subseteq sp.eliminate) =>
    /\ \A k \in 1..Len(sp.ret[1]) : Range(sp.ret[1][k].dims) \cap sp.eliminate = {}
    /\ AllDims(sp.ret[1]) = AllDims(sp.factors) \ sp.eliminate
    /\ \A k \in 1..Len(sp.ret[1]) :
         sp.ret[1][k].shape = ShapeOf(sp.ret[1][k].dims)
\* A call with plate i eliminated and y kept has returned a factor over y.
C24_Witness ==
  /\ sp.pc = "returned" /\ sp.plates = {"i"} /\ sp.plates \subseteq sp.eliminate
  /\ "y" \notin sp.eliminate /\ "x" \in sp.eliminate
  /\ \E k \in 1..Len(sp.factors) : "i" \in Range(sp.factors[k].dims)
  /\ \E k \in 1..Len(sp.ret[1]) : sp.ret[1][k].dims = <<"y">>

\* ---------------------------- further claim on sequential_sum_product
\* The least k with 2^k >= T.
CeilLog2(T) == CHOOSE k \in 0..T : 2^k >= T /\ \A j \in 0..(k-1) : 2^j < T

\* C20: every round of sequential_sum_product replaces a time size d > 1
\* by ceil(d/2), with the last slice kept at the end of the time axis when d
\* is odd; the loop exits exactly when the size is 1, after ceil(log2 T)
\* rounds, and the result has no time dimension.
C20_Rounds ==
  [][/\ sq.pc = "loop" /\ sq'.pc = "loop" =>
          LET d == TimeSize(sq.trans)
              e == TimeSize(sq'.trans)
          IN /\ d > 1 /\ 2 * e \in {d, d + 1}
             /\ sq'.rounds = sq.rounds + 1
             /\ d % 2 = 1 => \A a, b \in 0..1 :
                  TransAt(sq'.trans, e - 1, a, b) = TransAt(sq.trans, d - 1, a, b)
     /\ sq.pc = "loop" /\ sq'.pc = "done" =>
          /\ TimeSize(sq.trans) = 1
          /\ sq'.rounds = CeilLog2(TimeSize(sq.trans0))
          /\ "time" \notin Range(sq'.ret[1].dims)
     /\ sq.pc = "loop" => sq'.pc \in {"loop", "done"}]_vars
C20_Witness ==
  /\ sq.pc = "done" /\ TimeSize(sq.trans0) = 5 /\ sq.rounds = 3
  /\ "time" \notin Range(sq.ret[1].dims)

\* -------------------------------------- further claims on the term algebra
\* x.reduce(op, {d1}).reduce(op, {d2})... for the dims of order, in order.
RECURSIVE ReduceInOrder(_, _, _)
ReduceInOrder(r, op, order) ==
  IF ~r.ok \/ order = <<>> THEN r
  ELSE ReduceInOrder(Reduce(r.val, op, [all |-> FALSE, set |-> {Head(order)}],
                            <<Head(order)>>),
                     op, Tail(order))

Reversed(op) == IF op = "sub" THEN "rsub" ELSE IF op = "rsub" THEN "sub" ELSE op

\* The array x of an operand with dims x_dims, seen from the aligned array y
\* over dims: a dim of the operand keeps its size, any other axis has size 1,
\* and y holds x's element at the same named index.
AlignedLike(x_dims, x, dims, y) ==
  /\ y.ok
  /\ Len(y.shape) = Len(dims)
  /\ \A k \in 1..Len(dims) :
       y.shape[k] = IF dims[k] \in Range(x_dims)
                    THEN x.shape[IndexOf(x_dims, dims[k])] ELSE 1
  /\ \A i \in Idx(y.shape) :
       y.at[i] = x.at[[p \in 1..Len(x_dims) |-> i[IndexOf(dims, x_dims[p])]]]

\* The size of dim d in x.
SizeIn(x, d) == x.shape[IndexOf(x.dims, d)]
\* a and b give every dim they share the same size.
SizesAgree(a, b) ==
  \A d \in Range(a.dims) \cap Range(b.dims) : SizeIn(a, d) = SizeIn(b, d)

\* C16: for Tensor operands a and b in any dim orders that agree on the size
\* of every shared dim, a.pointwise_binary(b, op) and
\* b.pointwise_binary(a, reversed op) succeed and are the same named array over the union of the operands' dims with the operands' sizes; the
\* alignment of each operand keeps the size of every dim it has, gives the
\* other axes size 1 and keeps every element at its named index.
C16_BinarySymmetric ==
  (call.op = "pointwise_binary" /\ call.self.kind = "Tensor"
     /\ IsFunsor(call.other) /\ call.other.v.kind = "Tensor"
     /\ SizesAgree(call.self, call.other.v)) =>
    LET a == call.self
        b == call.other.v
        rev == PointwiseBinary(b, Ten(a), OpV(Reversed(call.prod_op)))
        al == AlignTensors(<<<<a.dims, Arr(a)>>, <<b.dims, Arr(b)>>>>)
    IN /\ res.ok /\ rev.ok
       /\ SameNamedValue(res.val, rev.val)
       /\ Range(res.val.dims) = Range(a.dims) \cup Range(b.dims)
       /\ Cardinality(Range(res.val.dims)) = Len(res.val.dims)
       /\ \A k \in 1..Len(res.val.dims) :
            res.val.shape[k] = IF res.val.dims[k] \in Range(a.dims)
                               THEN SizeIn(a, res.val.dims[k])
                               ELSE SizeIn(b, res.val.dims[k])
       /\ \A i \in Idx(res.val.shape) :
            res.val.data[i] = ApplyOp(call.prod_op, NamedAt(a, res.val.dims, i),
                                      NamedAt(b, res.val.dims, i))
       /\ Range(al.dims) = Range(a.dims) \cup Range(b.dims)
       /\ AlignedLike(a.dims, Arr(a), al.dims, al.tensors[1])
       /\ AlignedLike(b.dims, Arr(b), al.dims, al.tensors[2])
C16_Witness ==
  /\ call.op = "pointwise_binary" /\ call.prod_op = "sub"
  /\ call.self.kind = "Tensor" /\ call.self.dims = <<"a", "b">>
  /\ IsFunsor(call.other) /\ call.other.v.kind = "Tensor"
  /\ call.other.v.dims = <<"b", "a">>
  /\ res.ok /\ res.val.dims = <<"a", "b">> /\ res.val.data[<<1, 2>>] = 5 - 5


\* C15: for a Tensor and one of its dims d, argreduce with min or max over
\* {d} returns ({d: v}, r) where v and r have the receiver's dims without d,
\* r is the reduce over {d}, and v holds at every remaining index an index
\* of d at which the receiver attains r.
C15_Argreduce ==
  (call.op = "argreduce" /\ call.self.kind = "Tensor"
     /\ call.sum_op \in {"min", "max"}
     /\ Cardinality(call.rd.set) = 1 /\ call.rd.set \subseteq Range(call.self.dims)) =>
    LET self == call.self
        d == CHOOSE d \in call.rd.set : TRUE
        pos == IndexOf(self.dims, d)
        rest == Without(self.dims, {d})
        red == Reduce(self, call.sum_op, call.rd, <<d>>)
    IN /\ res.ok /\ red.ok
       /\ DictKeys(res.args) = <<d>>
       /\ DictGet(res.args, d).dims = rest
       /\ res.val = red.val
       /\ \A i \in Idx(res.val.shape) :
            /\ DictGet(res.args, d).data[i] \in 0..(self.shape[pos] - 1)
            /\ self.data[Insert(i, pos, DictGet(res.args, d).data[i])] = res.val.data[i]

\* ------------------------------------------ Variable, var and _VARIABLES
\* The objects of a run live in vr.objs; a reference is a position in it.
\* vr.reg is the WeakValueDictionary _VARIABLES (0: no entry), vr.held the
\* references the program holds, vr.th the threads, vr.last the last
\* completed call.
MaxObjs == 3
MaxThreads == 2
VarNames == {"x", "y"}
\* An int size and the domain "real".
VarSizes == {2, -1}
Keys == VarNames \X VarSizes
NoKey == <<"", 0>>
Ref(id) == [t |-> "ref", n |-> id, s |-> "", v |-> NoF, sl |-> <<>>]

\* Variant of the membership test that never finds the key.
RegisteredNever(reg, key) == FALSE
\* key in _VARIABLES
Registered(reg, key) == reg[key] # 0

\* Variable(name, size)
VariableNew(name, size, reg) ==
  IF Registered(reg, <<name, size>>) THEN Fail("AssertionError")
  ELSE IF ~FunsorInit(<<name>>, <<size>>) THEN Fail("AssertionError")
  ELSE Ok([kind |-> "Variable", dims |-> <<name>>, shape |-> <<size>>,
           data |-> (<<>> :> 0), valid |-> TRUE])

\* The object var(name, size) constructs on a miss.
VarConstructed(name, size, reg) ==
  IF size \notin DOMAINS
  THEN TensorNew(<<name>>, <<size>>, [i \in Idx(<<size>>) |-> i[1]])
  ELSE VariableNew(name, size, reg)

\* Variable.__call__: what it does next. to = "return": return val;
\* to = "var": return var(key); to = "raise": raise err.
VariableCall(id, self, args, kwargs) ==
  LET kw == DictUpdate(kwargs, Zip(self.dims, args))
      name == self.dims[1]
      value == DictGet(kw, name)
      Return(v) == [to |-> "return", val |-> v, err |-> "", key |-> NoKey]
  IN IF ~HasKey(kw, name) THEN Return(Ref(id))
     ELSE IF value.t = "ellipsis" THEN Return(Ref(id))
     ELSE IF value.t = "str"
     THEN [to |-> "var", val |-> NoV, err |-> "", key |-> <<value.s, self.shape[1]>>]
     ELSE IF value.t = "num" THEN Return(NoV)
     ELSE IF value.t = "ref" THEN Return(value)
     ELSE [to |-> "raise", val |-> NoV, err |-> "NotImplementedError", key |-> NoKey]

\* Variant of the identity test that always reports a new object.
TensorCallSameNever(self, args, kwargs) == FALSE
\* Tensor.__call__ returns self when every _substitute returns self.
TensorCallSame(self, args, kwargs) ==
  LET kw == TensorCallKwargs(self, args, kwargs)
  IN \A k \in 1..Len(kw) :
       \/ kw[k][2].t = "slice" /\ kw[k][2].sl = <<NoneV, NoneV, NoneV>>
       \/ kw[k][2].t = "str" /\ kw[k][1] = kw[k][2].s
\* Function.__call__ returns self when no argument binds a dim.
FunctionCallSame(self, args, kwargs) ==
  args = <<>> /\ SelectSeq(kwargs, LAMBDA p : p[1] \in Range(self.dims)) = <<>>
CallSame(self, args, kwargs) ==
  IF self.kind = "Tensor" THEN TensorCallSame(self, args, kwargs)
  ELSE FunctionCallSame(self, args, kwargs)

\* A thread: its position in var, the call it serves and its locals.
Thread(pc, op, key, self, args, kwargs, obj) ==
  [pc |-> pc, op |-> op, key |-> key, self |-> self, args |-> args,
   kwargs |-> kwargs, obj |-> obj]
IdleThread == Thread("idle", "", NoKey, 0, <<>>, <<>>, 0)
NoLast ==
  [op |-> "", key |-> NoKey, self |-> 0, args |-> <<>>, kwargs |-> <<>>,
   err |-> "", val |-> NoV, prior |-> {}]

\* The objects var returned for key that the program still holds.
Interned(key) == {i \in vr.held : vr.objs[i].key = key}
\* The objects some reference keeps alive: those the program holds and the
\* locals of the threads.
Alive(held, th) ==
  (held \cup {th[t].obj : t \in DOMAIN th} \cup {th[t].self : t \in DOMAIN th}) \ {0}
\* An entry of the WeakValueDictionary goes when its object dies.
Evict(reg, alive) == [k \in DOMAIN reg |-> IF reg[k] \in alive THEN reg[k] ELSE 0]
\* An argument that refers to an object is that object.
Deref(v) == IF v.t = "ref" THEN Ten(vr.objs[v.n].o) ELSE v
DerefArgs(args) == [k \in 1..Len(args) |-> Deref(args[k])]
DerefKwargs(kwargs) == [k \in 1..Len(kwargs) |-> <<kwargs[k][1], Deref(kwargs[k][2])>>]

\* The call c of thread t ends, returning val or raising err.
Finish(t, c, objs, reg, err, val) ==
  LET held == IF err = "" /\ val.t = "ref" THEN vr.held \cup {val.n} ELSE vr.held
      th == [vr.th EXCEPT ![t] = IdleThread]
  IN
  vr' = [vr EXCEPT !.objs = objs, !.reg = Evict(reg, Alive(held, th)),
                   !.th = th, !.held = held,
                   !.last = [op |-> c.op, key |-> c.key, self |-> c.self,
                             args |-> c.args, kwargs |-> c.kwargs,
                             err |-> err, val |-> val,
                             prior |-> IF c.key = NoKey THEN {} ELSE Interned(c.key)]]

VarWorld(n) ==
  [n |-> n, objs |-> <<>>, reg |-> [k \in Keys |-> 0], held |-> {},
   th |-> [t \in 1..n |-> IdleThread], last |-> NoLast]
Rest == f = NoF /\ call = NoCall /\ res = Ok(NoF) /\ nops = 0 /\ sp = NoFrame /\ sq = NoFrame
\* One thread.
InitVar == vr = VarWorld(1) /\ Rest
\* Several threads.
InitVarConc == vr = VarWorld(MaxThreads) /\ Rest

\* Every call in progress may still construct one object.
Room ==
  Len(vr.objs) + Cardinality({t \in 1..vr.n : vr.th[t].pc # "idle"}) < MaxObjs
CallArgs ==
  {<<>>, <<Num(1)>>, <<EllipsisV>>}
    \cup {<<Str(n)>> : n \in VarNames} \cup {<<Ref(i)>> : i \in vr.held}
CallKwargs ==
  {<<>>, <<<<"x", Num(0)>>>>, <<<<"y", RawV>>>>}

\* A thread calls var(name, size).
VarCall ==
  /\ Room
  /\ \E t \in 1..vr.n, key \in Keys :
       /\ vr.th[t].pc = "idle"
       /\ vr' = [vr EXCEPT !.th[t] = Thread("check", "var", key, 0, <<>>, <<>>, 0)]
  /\ UNCHANGED <<f, call, res, nops, sp, sq>>
\* if key in _VARIABLES
VarCheck ==
  /\ \E t \in 1..vr.n :
       /\ vr.th[t].pc = "check"
       /\ vr' = [vr EXCEPT !.th[t].pc =
                   IF Registered(vr.reg, vr.th[t].key) THEN "get" ELSE "construct"]
  /\ UNCHANGED <<f, call, res, nops, sp, sq>>
\* return _VARIABLES[key]
VarGet ==
  /\ \E t \in 1..vr.n :
       /\ vr.th[t].pc = "get"
       /\ IF vr.reg[vr.th[t].key] # 0
          THEN Finish(t, vr.th[t], vr.objs, vr.reg, "", Ref(vr.reg[vr.th[t].key]))
          ELSE Finish(t, vr.th[t], vr.objs, vr.reg, "KeyError", NoV)
  /\ UNCHANGED <<f, call, res, nops, sp, sq>>
\* result = Tensor((name,), torch.arange(size)) or Variable(name, size)
VarConstruct ==
  /\ \E t \in 1..vr.n :
       /\ vr.th[t].pc = "construct"
       /\ LET key == vr.th[t].key
              r == VarConstructed(key[1], key[2], vr.reg)
          IN IF r.ok
             THEN vr' = [vr EXCEPT !.objs = Append(@, [o |-> r.val, key |-> key]),
                                   !.th[t].pc = "insert",
                                   !.th[t].obj = Len(vr.objs) + 1]
             ELSE Finish(t, vr.th[t], vr.objs, vr.reg, r.err, NoV)
  /\ UNCHANGED <<f, call, res, nops, sp, sq>>
\* _VARIABLES[key] = result; return result
VarInsert ==
  /\ \E t \in 1..vr.n :
       /\ vr.th[t].pc = "insert"
       /\ Finish(t, vr.th[t], vr.objs,
                 [vr.reg EXCEPT ![vr.th[t].key] = vr.th[t].obj],
                 "", Ref(vr.th[t].obj))
  /\ UNCHANGED <<f, call, res, nops, sp, sq>>
\* The program constructs a Function over dim x.
FunctionMake ==
  /\ Room
  /\ \E t \in 1..vr.n :
       /\ vr.th[t].pc = "idle"
       /\ LET r == FunctionNew(<<"x">>, ShapeOf(<<"x">>), Table(ShapeOf(<<"x">>), 0), TRUE)
          IN Finish(t, Thread("", "Function", NoKey, 0, <<>>, <<>>, 0),
                    Append(vr.objs, [o |-> r.val, key |-> NoKey]), vr.reg,
                    "", Ref(Len(vr.objs) + 1))
  /\ UNCHANGED <<f, call, res, nops, sp, sq>>
\* A thread calls self(*args, **kwargs) on an object the program holds.
FunsorCall ==
  /\ Room
  /\ \E t \in 1..vr.n, id \in vr.held, args \in CallArgs, kwargs \in CallKwargs :
       LET self == vr.objs[id].o
           c == Thread("", "call", NoKey, id, args, kwargs, 0)
           out == VariableCall(id, self, args, kwargs)
           r == Call(self, DerefArgs(args), DerefKwargs(kwargs))
       IN /\ vr.th[t].pc = "idle"
          /\ IF self.kind = "Variable"
             THEN IF out.to = "var"
                  THEN vr' = [vr EXCEPT !.th[t] =
                                Thread("check", "call", out.key, id, args, kwargs, 0)]
                  ELSE Finish(t, c, vr.objs, vr.reg, out.err, out.val)
             ELSE IF ~r.ok THEN Finish(t, c, vr.objs, vr.reg, r.err, NoV)
             ELSE IF CallSame(self, DerefArgs(args), DerefKwargs(kwargs))
             THEN Finish(t, c, vr.objs, vr.reg, "", Ref(id))
             ELSE Finish(t, c, Append(vr.objs, [o |-> r.val, key |-> NoKey]), vr.reg,
                         "", Ref(Len(vr.objs) + 1))
  /\ UNCHANGED <<f, call, res, nops, sp, sq>>
\* The program drops a reference it holds; an object left without a
\* reference dies at once.
Drop ==
  /\ \E t \in 1..vr.n : vr.th[t].pc = "idle"
  /\ \E id \in vr.held :
       vr' = [vr EXCEPT !.held = @ \ {id},
                        !.reg = Evict(@, Alive(vr.held \ {id}, vr.th))]
  /\ UNCHANGED <<f, call, res, nops, sp, sq>>

NextVar ==
  \/ VarCall \/ VarCheck \/ VarGet \/ VarConstruct \/ VarInsert
  \/ FunctionMake \/ FunsorCall \/ Drop
SpecVar == InitVar /\ [][NextVar]_vars
SpecVarConc == InitVarConc /\ [][NextVar]_vars

\* ---- claims on Variable, var and the registry

\* The value Variable.__call__ finds bound to the variable's name.
BoundTo(self, args, kwargs) == DictUpdate(kwargs, Zip(self.dims, args))

\* C11: a Variable named n called with a value bound to n returns the value
\* itself when it is a number, the Variable of the new name and the same
\* domain when it is a string, the funsor when it is a funsor, and the
\* Variable itself when n is not bound or is bound to Ellipsis.
C11_VariableCall ==
  LET l == vr.last IN
  (l.op = "call" /\ vr.objs[l.self].o.kind = "Variable") =>
    LET self == vr.objs[l.self].o
        name == self.dims[1]
        kw == BoundTo(self, l.args, l.kwargs)
        value == DictGet(kw, name)
    IN IF ~HasKey(kw, name) THEN l.err = "" /\ l.val = Ref(l.self)
       ELSE CASE value.t = "ellipsis" -> l.err = "" /\ l.val = Ref(l.self)
              [] value.t = "num" -> l.err = "" /\ l.val = value
              [] value.t = "str" ->
                   /\ l.err = "" /\ l.val.t = "ref"
                   /\ vr.objs[l.val.n].o.kind = "Variable"
                   /\ vr.objs[l.val.n].o.dims = <<value.s>>
                   /\ vr.objs[l.val.n].o.shape = self.shape
              [] value.t = "ref" -> l.err = "" /\ l.val = value
              [] OTHER -> TRUE

\* C12: with one thread, after any sequence of var calls the program holds
\* at most one object per key, that object is the registry's entry for the
\* key, and a var call for a key one of whose results is still held returns
\* that same object.
C12_Interning ==
  /\ \A i, j \in vr.held :
       vr.objs[i].key # NoKey /\ vr.objs[i].key = vr.objs[j].key => i = j
  /\ \A i \in vr.held : vr.objs[i].key # NoKey => vr.reg[vr.objs[i].key] = i
  /\ \A k \in Keys : vr.reg[k] # 0 => vr.objs[vr.reg[k]].key = k
  /\ (vr.last.op = "var" /\ vr.last.err = "") =>
       vr.last.val.t = "ref" /\ vr.objs[vr.last.val.n].key = vr.last.key
  /\ (vr.last.op = "var" /\ vr.last.prior # {}) =>
       vr.last.err = "" /\ \A i \in vr.last.prior : vr.last.val = Ref(i)
C12_Witness ==
  /\ vr.last.op = "var" /\ vr.last.err = ""
  /\ vr.last.prior # {} /\ vr.last.val.t = "ref" /\ vr.last.val.n \in vr.last.prior
  /\ vr.objs[vr.last.val.n].o.kind = "Variable"

\* C13: with several threads calling var, no call fails, an object the
\* program holds stays the registry's entry for its key, and the program
\* never holds two distinct objects var returned for one key.
C13_ConcurrentInterning ==
  /\ vr.last.op = "var" => vr.last.err = ""
  /\ \A i \in vr.held : vr.objs[i].key # NoKey => vr.reg[vr.objs[i].key] = i
  /\ \A i, j \in vr.held :
       vr.objs[i].key # NoKey /\ vr.objs[i].key = vr.objs[j].key => i = j

\* C17: a call with no positional and no named argument returns the
\* receiver itself, for a Variable, a Function and a Tensor.
C17_NoArgIdentity ==
  (vr.last.op = "call" /\ vr.last.args = <<>> /\ vr.last.kwargs = <<>>) =>
    vr.last.err = "" /\ vr.last.val = Ref(vr.last.self)
C17_Witness ==
  /\ vr.last.op = "call" /\ vr.last.args = <<>> /\ vr.last.kwargs = <<>>
  /\ vr.objs[vr.last.self].o.kind = "Tensor"
  /\ vr.last.val = Ref(vr.last.self)
  /\ \E i \in vr.held : vr.objs[i].o.kind = "Function"

====
